---- MODULE Spec2Model ----
(***************************************************************************)
(* Orchestration engine of C-Star: the planners, the Task state record,    *)
(* the Launcher and the Orchestrator loop of                               *)
(* src/cstar/orchestration/orchestrator.py, together with the part of the  *)
(* operating system those classes talk to (child processes, pids and       *)
(* creation times).                                                        *)
(*                                                                         *)
(* Python's None is the empty sequence, a present value v is <<v>>.        *)
(* Dictionaries keyed by step name are functions over Names whose value 0  *)
(* means "no entry"; any other value is the identity of a Task object in   *)
(* heap.                                                                   *)
(***************************************************************************)
EXTENDS Integers, Sequences, FiniteSets, TLC

\* ------------------------------------------------------------------ bounds
\* Task objects a run may create (launches that build a Task).
MaxTasks == 3
\* Calls of one Service hook that are counted (more are counted as this many).
MaxCalls == 3
\* Launch and Planner.remove calls recorded in a run.
MaxEvents == 8
\* Descendant processes a spawned command may have.
MaxKids == 1
\* Launcher.launch calls a caller makes directly on the launcher.
MaxLaunches == 1
\* Pieces (words, blanks) a raw status string is made of.
MaxPieces == 2
\* Lines of a sacct answer, and names in one _query_status call.
MaxLines == 2
\* Calendar years the dates of a time span are taken from.
MaxYears == 2
\* Steps in the list of one Launcher.launch call.
MaxSteps == 2
\* Task objects a Launcher creates over its launch calls.
MaxLaunched == 2
\* Planner.remove calls the owner of a planner makes on it.
MaxRemoves == 2

\* --------------------------------------------------------------- constants
\* The first calendar year of the dates (test_time_splitting: 2025).
FirstYear == 2025
\* check_status: @task(retries=10, ...).
retries == 10
\* Launcher.report_all: number of checks after which a task is reported Done.
state_transition_threshold == 4

None == <<>>
Some(v) == <<v>>
Val(o) == o[1]

\* TaskStatus, in its total order.
TaskStatus == <<"Unknown", "Waiting", "Ready", "Active", "Done", "Aborted", "Failed">>
Rank(s) == CHOOSE i \in 1..Len(TaskStatus) : TaskStatus[i] = s
Gt(a, b) == Rank(a) > Rank(b)
Lt(a, b) == Rank(a) < Rank(b)
Ge(a, b) == Rank(a) >= Rank(b)

\* Step names, in the order sorted() gives them.
NameOrder == <<"A", "B", "C", "D">>
Names == {NameOrder[i] : i \in 1..Len(NameOrder)}
Ord(n) == CHOOSE i \in 1..Len(NameOrder) : NameOrder[i] = n

START_NODE == "_cstar_start_node"
TERMINAL_NODE == "_cstar_term_node"
control_nodes == {START_NODE, TERMINAL_NODE}

\* Return codes a process can end with by itself (clean exit, failure), and the
\* return code Popen reports for a process ended by kill().
ExitCodes == {0, 1}
KilledRc == 0 - 9

\* str(int) and int(str) as the state_bag stores and reads return codes.
StrOfInt(i) == CASE i = 0 -> "0" [] i = 1 -> "1" [] i = -9 -> "-9"
IntOfStr(s) == CASE s = "0" -> 0 [] s = "1" -> 1 [] s = "-9" -> -9

\* ------------------------------------------------------------- workplans
Step(n, deps, app) == [name |-> n, depends_on |-> deps, application |-> app]

Workplans ==
  { << Step("A", {}, "sleep") >>,
    << Step("A", {}, "sleep"), Step("B", {"A"}, "sleep") >>,
    << Step("B", {"A"}, "sleep"), Step("A", {}, "sleep") >>,
    << Step("A", {}, "sleep"), Step("B", {"A"}, "sleep"),
       Step("C", {"A"}, "sleep"), Step("D", {"B", "C"}, "sleep") >>,
    << Step("A", {}, "roms"), Step("B", {}, "sleep") >>,
    << Step("A", {}, "no-app") >> }

\* Application enum membership (`step.application not in Application`).
Application == {"sleep", "roms", "roms_marbl"}

VARIABLES
  workplan,      \* Planner.workplan.steps
  plannerKind,   \* "graph" (GraphPlanner) or "serial" (SerialPlanner)
  graph,         \* GraphPlanner.graph: the nodes still in the graph
  plan_,         \* SerialPlanner._plan
  heap,          \* the Task objects created so far
  tasks,         \* Launcher.tasks
  check_counts,  \* Launcher.check_counts
  task_lookup,   \* Orchestrator.task_lookup
  task_archive,  \* Orchestrator.task_archive
  procs,         \* operating system: the process started for each Task object
  runState,      \* Orchestrator.run(): "idle", "running", "returned", "raised"
  lastCall,      \* the most recent run_step call and how it ended
  lastCancel,    \* Task.cancel, when it is the latest call on a Task: how it ended,
                 \* and how the cancel before it ended if that was the call before
  lastQuery,     \* Task.query, when it is the latest call on a Task: how it ended
  lastStart,     \* Task.start, when it is the latest direct call on a Task, and the
                 \* Task as its constructor made it
  lastOp,        \* the latest launch, report_all or update call on the Launcher
  rcReads,       \* per Task object whose rc was read: the values read, in order
  svc,           \* the Service object, its execute() call and its health-check thread
  chk,           \* the status-check flow: a handle_request call and its probes
  fn,            \* a call of a function of its arguments alone: the arguments, and
                 \* the result once the call has been made
  events,        \* Launcher.launch and Planner.remove calls, in call order
  statusTrace,   \* per Task object of a run or a single-step call: the values
                 \* assigned to status, in order
  reportTrace    \* per name: the values Orchestrator.run_step and report saw, in order

vars == << workplan, plannerKind, graph, plan_, heap, tasks, check_counts,
           task_lookup, task_archive, procs, runState, lastCall, lastCancel,
           lastQuery, lastStart, lastOp, rcReads, svc, chk, fn, events,
           statusTrace, reportTrace >>

\* The state of the orchestration engine (everything but the Service).
engineVars == << workplan, plannerKind, graph, plan_, heap, tasks, check_counts,
                 task_lookup, task_archive, procs, runState, lastCall, lastCancel,
                 lastQuery, lastStart, lastOp, rcReads, events, statusTrace,
                 reportTrace >>

callVars == << lastCancel, lastQuery, lastStart, lastOp, rcReads >>
\* The Service and the status-check flow, which the engine's calls leave alone.
extVars == << svc, chk, fn >>
orchVars == << task_lookup, task_archive, runState, lastCall >>
planVars == << workplan, plannerKind, graph, plan_ >>

StepNames(wp) == {wp[i].name : i \in 1..Len(wp)}
StepOf(wp, n) == wp[CHOOSE i \in 1..Len(wp) : wp[i].name = n]

\* ---------------------------------------------------------------- planner
\* GraphPlanner._initialize_from_plan: dep_map, handed to nx.DiGraph as a
\* dict of lists, gives one edge key -> neighbour for each listed neighbour.
dep_map(wp) == [n \in StepNames(wp) |-> StepOf(wp, n).depends_on]
DiGraphEdges(dm) == {e \in (DOMAIN dm) \X Names : e[2] \in dm[e[1]]}
DiGraphNodes(dm) == (DOMAIN dm) \cup UNION {dm[n] : n \in DOMAIN dm}

in_degree(E, n) == Cardinality({e \in E : e[2] = n})
out_degree(E, n) == Cardinality({e \in E : e[1] = n})

\* GraphPlanner._add_marker_nodes
_add_marker_nodes(N, E) ==
  LET nodes == N \cup control_nodes
      no_dep_edges == {<<START_NODE, n>> : n \in {m \in nodes :
                          in_degree(E, m) = 0 /\ m \notin control_nodes}}
      E1 == E \cup no_dep_edges
      terminal_edges == {<<n, TERMINAL_NODE>> : n \in {m \in nodes :
                          out_degree(E1, m) = 0 /\ m # TERMINAL_NODE}}
  IN [nodes |-> nodes, edges |-> E1 \cup terminal_edges]

\* GraphPlanner._workplan_to_graph
_workplan_to_graph(wp) ==
  _add_marker_nodes(DiGraphNodes(dep_map(wp)), DiGraphEdges(dep_map(wp)))

\* sorted() over node names; the control nodes sort after the step names.
NodeOrd(n) == IF n = START_NODE THEN Len(NameOrder) + 1
              ELSE IF n = TERMINAL_NODE THEN Len(NameOrder) + 2 ELSE Ord(n)
RECURSIVE sorted(_)
sorted(S) == IF S = {} THEN <<>>
             ELSE LET m == CHOOSE x \in S : \A y \in S : NodeOrd(x) <= NodeOrd(y)
                  IN <<m>> \o sorted(S \ {m})

\* nx.bfs_edges(graph, source, sort_neighbors=sorted): the targets of the tree
\* edges in the order the traversal yields them.
RECURSIVE bfs_edges(_, _, _, _)
bfs_edges(E, queue, visited, out) ==
  IF queue = <<>> THEN out
  ELSE LET parent == Head(queue)
           children == {e[2] : e \in {x \in E : x[1] = parent}}
           fresh == sorted(children \ visited)
       IN bfs_edges(E, Tail(queue) \o fresh, visited \cup children, out \o fresh)

\* GraphPlanner.plan
plan(wp) ==
  LET g == _workplan_to_graph(wp)
      targets == bfs_edges(g.edges, <<START_NODE>>, {START_NODE}, <<>>)
      NotTerm(n) == n # TERMINAL_NODE
  IN SelectSeq(targets, NotTerm)

\* GraphPlanner.__next__ : the first step of the workplan, whatever was removed.
GraphNext(wp) == IF Len(wp) > 0 THEN Some(wp[1].name) ELSE None

\* SerialPlanner.__next__
SerialNext(p) == IF p # <<>> THEN Some(p[1]) ELSE None

next(kind, wp, p) == IF kind = "graph" THEN GraphNext(wp) ELSE SerialNext(p)

\* GraphPlanner.__iter__ (iter(self.workplan.steps)) and SerialPlanner.__iter__
\* (iter(self.plan())): the names of the steps an iteration yields, in order.
PlannerIter(kind, wp, p) ==
  IF kind = "graph" THEN [i \in 1..Len(wp) |-> wp[i].name] ELSE p

\* list.pop(list.index(x))
RemoveFirst(p, n) ==
  LET i == CHOOSE k \in 1..Len(p) : p[k] = n /\ \A j \in 1..(k - 1) : p[j] # n
  IN SubSeq(p, 1, i - 1) \o SubSeq(p, i + 1, Len(p))
InSeq(p, n) == \E k \in 1..Len(p) : p[k] = n

\* Planner.remove raises when the step is not there: graph.remove_node raises
\* NetworkXError, list.index raises ValueError.
RemoveRaises(kind, g, p, n) ==
  IF kind = "graph" THEN n \notin g ELSE ~InSeq(p, n)

\* ------------------------------------------------------------------- Task
\* Task.__init__ for a Step source.
NewTask(n) ==
  [name |-> n, status |-> "Waiting", process |-> FALSE, pid |-> None,
   returncode |-> None, bag_rc |-> None, create_time |-> None,
   exception |-> None, cmd |-> None, task_id |-> Some("uuid1")]

\* Task.rc (getter): the state_bag entry read back as an int; the branch on
\* process.returncode stores nothing (it is entered only when returncode is None).
rc(t) == IF t.bag_rc # None THEN Some(IntOfStr(Val(t.bag_rc))) ELSE None

\* Python truthiness of an `int | None`.
Truthy(o) == o # None /\ Val(o) # 0

\* One assignment to Task.status, appended to the object's trace. An assignment
\* of the value the status already has is not recorded a second time.
Assigned(trace, st, recycled) ==
  IF trace[Len(trace)].status = st THEN trace
  ELSE Append(trace, [status |-> st, recycled |-> recycled])

\* What launching a step can end in. StepToCommandAdapter.adapt raises
\* ValueError for an application outside the Application enum; find_executable
\* resolves every application but SLEEP to a command that does not exist, so
\* Popen raises FileNotFoundError (an OSError); for SLEEP the process spawns, or
\* Popen raises SubprocessError, or the launcher raises the RuntimeError that
\* Orchestrator._start catches.
LaunchOutcomes(step) ==
  IF step.application \notin Application THEN {"ValueError"}
  ELSE IF step.application = "sleep"
       THEN {"spawned", "SubprocessError", "RuntimeError"}
       ELSE {"OSError"}

LaunchRaises(outcome) == outcome \in {"ValueError", "OSError", "RuntimeError"}

\* What Task.start ends in when called on a Task built from the step.
StartOutcomes(step) == LaunchOutcomes(step) \ {"RuntimeError"}

\* CommandParameterizer.generate for the executable find_executable names:
\* the words of the command, which Task.cmd stores joined and reads split.
generate(outcome) ==
  IF outcome \in {"spawned", "SubprocessError"} THEN << "sleep", "2" >>
  ELSE << "oh-no-you-dont" >>

\* A start that spawns the process and records nothing about it.
StartWithoutBag(t, outcome, id) ==
  LET tr0 == << [status |-> "Waiting", recycled |-> FALSE] >>
  IN IF outcome = "spawned"
     THEN [task |-> [t EXCEPT !.process = TRUE, !.status = "Active"],
           trace |-> Assigned(tr0, "Active", FALSE)]
     ELSE [task |-> [t EXCEPT !.status = "Ready"],
           trace |-> Assigned(tr0, "Ready", FALSE)]

\* Task.start for a Step source: the task and its trace. The process spawns, or
\* Popen raises SubprocessError (caught: Failed), or adapt raises ValueError or
\* Popen raises an OSError (neither is caught: the status stays Ready).
start(t, outcome, id) ==
  LET ready == [t EXCEPT !.status = "Ready",
                          !.cmd = IF outcome = "ValueError" THEN t.cmd
                                  ELSE Some(generate(outcome))]
      tr0 == << [status |-> "Waiting", recycled |-> FALSE] >>
      tr1 == Assigned(tr0, "Ready", FALSE)
  IN IF outcome = "spawned"
     THEN [task |-> [ready EXCEPT !.process = TRUE, !.pid = Some(id),
                                  !.create_time = Some(id), !.status = "Active"],
           trace |-> Assigned(tr1, "Active", FALSE)]
     ELSE IF outcome = "SubprocessError"
     THEN [task |-> [ready EXCEPT !.status = "Failed"],
           trace |-> Assigned(tr1, "Failed", FALSE)]
     ELSE [task |-> ready, trace |-> tr1]

\* Launcher.launch, the status it writes after Launcher._create_task.
LaunchStatus(t) == IF Truthy(rc(t)) THEN "Failed" ELSE "Active"

NoProc == [state |-> "none", exit |-> None, kids |-> 0, ctime |-> 0,
           signalled |-> FALSE, kidsSignalled |-> 0]

\* Launcher.launch([step]) when Launcher._create_task returns a task: the new
\* Task object, its process and its entry in Launcher.tasks.
launch(n, outcome, kids) ==
  LET id == Len(heap) + 1
      st == start(NewTask(n), outcome, id)
      final == [st.task EXCEPT !.status = LaunchStatus(st.task)]
  IN /\ heap' = Append(heap, final)
     /\ statusTrace' = Append(statusTrace, Assigned(st.trace, final.status, FALSE))
     /\ tasks' = [tasks EXCEPT ![n] = id]
     /\ procs' = Append(procs,
                   IF outcome = "spawned"
                   THEN [state |-> "running", exit |-> None, kids |-> kids,
                         ctime |-> id, signalled |-> FALSE, kidsSignalled |-> 0]
                   ELSE NoProc)

\* Launcher.report_all([item])[item.name]
Reported(n) ==
  IF tasks[n] # 0
  THEN IF check_counts[n] < state_transition_threshold
       THEN heap[tasks[n]].status ELSE "Done"
  ELSE "Unknown"

\* Launcher.report_all: every tracked task's check count goes up by one. Counts
\* are only ever compared with the threshold, so they are kept up to it.
Counted ==
  [k \in Names |->
     IF tasks[k] # 0 /\ check_counts[k] < state_transition_threshold
     THEN check_counts[k] + 1 ELSE check_counts[k]]

Observed(trace, st) ==
  IF trace # <<>> /\ trace[Len(trace)] = st THEN trace ELSE Append(trace, st)

\* ---------------------------------------------------------- Orchestrator
\* FailTask.__init__: Task.__init__ runs and sets the instance's status; the
\* class-level Field(default=Failed) is not a pydantic field of a plain class.
FailTaskStatus == "Waiting"

\* FailTask.__init__(source, exception), given what Task.__init__ made of the
\* source: the message is stored on the instance.
FailTask(t, exception) == [t EXCEPT !.status = FailTaskStatus, !.exception = exception]

LaunchEvent(n, outcome) == [op |-> "launch", name |-> n, outcome |-> outcome,
                            status |-> "Unknown", ok |-> ~LaunchRaises(outcome)]
RemoveEvent(n, st, ok) == [op |-> "remove", name |-> n, outcome |-> "none",
                           status |-> st, ok |-> ok]

Call(n, had, outcome, kind, value) ==
  [step |-> n, hadRecord |-> had, outcome |-> outcome, kind |-> kind, value |-> value]

\* Orchestrator._start, after launch returned: the task is stored in
\* task_lookup, the local `task` is still None, and RuntimeError is raised.
StartResult(n, outcome) == Call(n, FALSE, outcome, "raised", "RuntimeError")

\* Orchestrator.run_step for a step without a Task record: Orchestrator._start.
_start(n) ==
  \E outcome \in LaunchOutcomes(StepOf(workplan, n)), kids \in 0..MaxKids :
    /\ events' = Append(events, LaunchEvent(n, outcome))
    /\ UNCHANGED << planVars, check_counts, reportTrace, callVars, extVars >>
    /\ CASE outcome \in {"spawned", "SubprocessError"} ->
              /\ Len(heap) < MaxTasks
              /\ outcome = "SubprocessError" => kids = 0
              /\ launch(n, outcome, kids)
              /\ task_lookup' = [task_lookup EXCEPT ![n] = Len(heap) + 1]
              /\ lastCall' = StartResult(n, outcome)
              /\ UNCHANGED task_archive
         [] outcome = "RuntimeError" ->
              /\ kids = 0
              /\ IF Gt(FailTaskStatus, "Active")
                 THEN /\ Len(heap) < MaxTasks
                      /\ heap' = Append(heap, FailTask(NewTask(n), Some("RuntimeError")))
                      /\ statusTrace' = Append(statusTrace,
                            << [status |-> FailTaskStatus, recycled |-> FALSE] >>)
                      /\ procs' = Append(procs, NoProc)
                      /\ task_archive' = [task_archive EXCEPT ![n] = Len(heap) + 1]
                      /\ lastCall' = Call(n, FALSE, outcome, "raised", "RuntimeError")
                 ELSE /\ lastCall' = Call(n, FALSE, outcome, "returned", FailTaskStatus)
                      /\ UNCHANGED << heap, statusTrace, procs, task_archive >>
              /\ UNCHANGED << tasks, task_lookup >>
         [] OTHER ->
              /\ kids = 0
              /\ lastCall' = Call(n, FALSE, outcome, "raised", outcome)
              /\ UNCHANGED << heap, statusTrace, procs, tasks, task_lookup, task_archive >>

\* Orchestrator.run_step for a step that has a Task record: report, write the
\* status on change, and retire the step when the status is above Active.
Reconcile(n) ==
  LET id == task_lookup[n]
      current_status == Reported(n)
      retire == Gt(current_status, "Active")
      raises == retire /\ RemoveRaises(plannerKind, graph, plan_, n)
  IN /\ check_counts' = Counted
     /\ reportTrace' = [reportTrace EXCEPT ![n] = Observed(@, current_status)]
     /\ heap' = [heap EXCEPT ![id].status = current_status]
     /\ statusTrace' = [statusTrace EXCEPT ![id] = Assigned(@, current_status, FALSE)]
     /\ events' = IF retire
                  THEN Append(events, RemoveEvent(n, current_status, ~raises))
                  ELSE events
     /\ IF retire /\ ~raises
        THEN /\ graph' = graph \ {n}
             /\ plan_' = IF plannerKind = "serial" THEN RemoveFirst(plan_, n) ELSE plan_
             /\ task_archive' = [task_archive EXCEPT ![n] = id]
             /\ task_lookup' = [task_lookup EXCEPT ![n] = 0]
        ELSE UNCHANGED << graph, plan_, task_archive, task_lookup >>
     /\ lastCall' = IF raises
                    THEN Call(n, TRUE, "none", "raised",
                              IF plannerKind = "graph" THEN "NetworkXError" ELSE "ValueError")
                    ELSE Call(n, TRUE, "none", "returned", current_status)
     /\ UNCHANGED << workplan, plannerKind, tasks, procs, callVars, extVars >>

\* Orchestrator.run_step(step)
run_step(n) ==
  /\ Len(events) < MaxEvents
  /\ IF task_lookup[n] = 0 THEN _start(n) ELSE Reconcile(n)

\* Orchestrator.run is called (again, by a caller that retries after an error).
CallRun ==
  /\ runState \in {"idle", "raised"}
  /\ runState' = "running"
  /\ UNCHANGED << planVars, heap, tasks, check_counts, task_lookup, task_archive,
                  procs, lastCall, callVars, extVars, events, statusTrace, reportTrace >>

\* Orchestrator.run, one turn of the loop: the planner is exhausted and run
\* returns, or run_step runs and its error, if any, leaves run.
RunIter ==
  /\ runState = "running"
  /\ LET step == next(plannerKind, workplan, plan_)
     IN IF step = None
        THEN /\ runState' = "returned"
             /\ UNCHANGED << planVars, heap, tasks, check_counts, task_lookup,
                             task_archive, procs, lastCall, callVars, extVars, events,
                             statusTrace, reportTrace >>
        ELSE /\ run_step(Val(step))
             /\ runState' = IF lastCall'.kind = "raised" THEN "raised" ELSE "running"

\* ------------------------------------------------------ operating system
\* A running process ends by itself with an exit code.
ProcExit(id, code) ==
  /\ id \in 1..Len(procs)
  /\ procs[id].state = "running"
  /\ procs' = [procs EXCEPT ![id].state = "exited", ![id].exit = Some(code)]
  /\ UNCHANGED << planVars, heap, tasks, check_counts, orchVars, callVars, extVars,
                  events, statusTrace, reportTrace >>

\* ------------------------------------------------------------------ Init
NoCall == Call("A", FALSE, "none", "none", "Unknown")
NoCancel == [id |-> 0, started |-> FALSE, pre |-> "none", exit |-> None,
             before |-> "Unknown", rcBefore |-> None, status |-> "Unknown",
             rc |-> None, root |-> "none", kids |-> 0, signalled |-> FALSE, kidsSignalled |-> 0,
             sent |-> 0, again |-> FALSE, first |-> None]

NoQuery == [id |-> 0, started |-> FALSE, pre |-> "none", exit |-> None,
            before |-> "Unknown", status |-> "Unknown", rc |-> None]

\* ServiceConfiguration(): the defaults.
ServiceConfiguration ==
  [as_service |-> FALSE, loop_delay |-> 0, health_check_frequency |-> 0]

\* A Service that has not been constructed yet. `pc` is the place of the
\* execute() call, `hc` the place of the health-check thread; the other fields
\* count the calls of the hooks and the tokens put on the queue.
NewService ==
  [pc |-> "new", _config |-> ServiceConfiguration, running |-> FALSE,
   _hc_queue |-> None, hc |-> "none", due |-> FALSE, checked |-> FALSE,
   iterations |-> 0, completions |-> 0, can_shutdown_calls |-> 0, delays |-> 0,
   shutdowns |-> 0, tokens |-> 0, raised |-> {}, stop |-> FALSE,
   iteration_failed |-> FALSE, complete_after_failure |-> FALSE,
   iteration_after_failure |-> FALSE, iteration_after_stop |-> FALSE,
   shutdown_begun |-> FALSE, check_after_shutdown |-> FALSE,
   shutdown_before_join |-> FALSE]

\* No handle_request call has been made.
NoRequest == [pc |-> "idle", task_name |-> "", attempts |-> 0, incomplete |-> 0,
              seen |-> {}, last |-> "Unknown", result |-> "Unknown", error |-> "none"]

\* No entry for a name in a map a Launcher call takes or returns.
NoMap == [n \in Names |-> "none"]

\* No call has been made on the Launcher. `names` are the steps or items of
\* the call (for update: the active tasks); the maps are keyed by name.
NoOp == [op |-> "none", steps |-> <<>>, names |-> {}, ids |-> [n \in Names |-> 0],
         started |-> NoMap, returned |-> NoMap, before |-> NoMap,
         answer |-> NoMap, after |-> NoMap, reported |-> NoMap]

NoStart == [id |-> 0, outcome |-> "none", raised |-> FALSE, status |-> "Unknown",
            exception |-> None, made |-> None]

\* No function call is under way.
NoFn == [op |-> "none", args |-> None, done |-> FALSE, result |-> None]

\* Nothing has been launched, called or constructed but the planner.
InitRest ==
  /\ heap = <<>>
  /\ tasks = [n \in Names |-> 0]
  /\ check_counts = [n \in Names |-> 0]
  /\ task_lookup = [n \in Names |-> 0]
  /\ task_archive = [n \in Names |-> 0]
  /\ procs = <<>>
  /\ runState = "idle"
  /\ lastCall = NoCall
  /\ lastCancel = NoCancel
  /\ lastQuery = NoQuery
  /\ lastStart = NoStart
  /\ lastOp = NoOp
  /\ rcReads = <<>>
  /\ svc = NewService
  /\ chk = NoRequest
  /\ events = <<>>
  /\ statusTrace = <<>>
  /\ reportTrace = [n \in Names |-> <<>>]

Init ==
  /\ workplan \in Workplans
  /\ plannerKind \in {"graph", "serial"}
  /\ graph = _workplan_to_graph(workplan).nodes
  /\ plan_ = IF plannerKind = "serial" THEN plan(workplan) ELSE <<>>
  /\ fn = NoFn
  /\ InitRest

Next ==
  \/ CallRun
  \/ RunIter
  \/ \E id \in 1..MaxTasks, code \in ExitCodes : ProcExit(id, code)

Spec == Init /\ [][Next]_vars

\* ------------------------------------------------- Task and Launcher calls
\* Task.query: nothing is polled unless process.returncode is already set.
query(t) ==
  IF t.pid = None \/ ~t.process \/ t.returncode = None THEN t
  ELSE [t EXCEPT !.bag_rc = Some(StrOfInt(Val(t.returncode))),
                 !.status = IF Val(t.returncode) = 0 THEN "Done" ELSE "Failed"]

\* Launcher._query_status for one tracked task.
_query_status(t) ==
  IF rc(t) = None THEN t.status
  ELSE IF ~Truthy(rc(t)) THEN "Done" ELSE "Failed"

\* Launcher.active_tasks
active_tasks == {n \in Names : tasks[n] # 0 /\ Lt(heap[tasks[n]].status, "Done")}

\* psutil.Process(pid) raises NoSuchProcess when no process has the pid.
NoSuchProcess(p) == p.state \in {"none", "gone"}

\* proc.create_time() != self.create_time
Recycled(t, p) == p.ctime # Val(t.create_time)

\* proc.children(recursive=True): a process that has ended has no children.
children(p) == IF p.state \in {"running", "recycled"} THEN p.kids ELSE 0

\* A cancel that kills the process at the pid and leaves its descendants alone.
KillRootOnly(p) ==
  [p EXCEPT !.signalled = TRUE,
            !.exit = IF p.state = "running" THEN Some(KilledRc) ELSE p.exit,
            !.state = IF p.state \in {"running", "exited"} THEN "reaped" ELSE p.state]

\* `for child in proc.children(recursive=True): child.kill()` then `proc.kill()`,
\* then Popen.wait: the children and the process at the pid get SIGKILL (it ends
\* a running process), and the task's own child process is reaped.
KillTree(p) ==
  [p EXCEPT !.kidsSignalled = children(p),
            !.kids = p.kids - children(p),
            !.signalled = TRUE,
            !.exit = IF p.state = "running" THEN Some(KilledRc) ELSE p.exit,
            !.state = IF p.state \in {"running", "exited"} THEN "reaped" ELSE p.state]

\* Popen.wait(timeout=1) after the kill: the return code of the child; a child
\* that something else has reaped already is given return code 0.
WaitRc(p) == IF p.state = "recycled" THEN 0
             ELSE IF p.state = "running" THEN KilledRc ELSE Val(p.exit)

\* Task.cancel, the status written on the last line but one.
CancelStatus(t) == "Aborted"

\* A cancel that does not look at process.returncode before it kills.
CancelWithoutGuard(t, p) ==
  IF t.pid = None \/ ~t.process
  THEN [task |-> t, proc |-> p, writes |-> <<>>, sent |-> 0]
  ELSE LET t2 == query([t EXCEPT !.returncode = Some(WaitRc(p))])
       IN [task |-> [t2 EXCEPT !.status = CancelStatus(t2)], proc |-> KillTree(p),
           writes |-> << [status |-> CancelStatus(t2), recycled |-> FALSE] >>,
           sent |-> children(p) + 1]

\* Task.cancel: the task, its process, the statuses assigned on the way and
\* the number of kill() calls made.
cancel(t, p) ==
  IF t.pid = None \/ ~t.process THEN [task |-> t, proc |-> p, writes |-> <<>>, sent |-> 0]
  ELSE IF t.returncode # None THEN [task |-> t, proc |-> p, writes |-> <<>>, sent |-> 0]
  ELSE IF NoSuchProcess(p)
  THEN [task |-> query(query(t)), proc |-> p, writes |-> <<>>, sent |-> 0]
  ELSE
    LET t0 == query(t)
        promoted == Recycled(t0, p)
        t1 == IF promoted THEN [t0 EXCEPT !.status = "Done"] ELSE t0
        w1 == IF promoted THEN << [status |-> "Done", recycled |-> TRUE] >> ELSE <<>>
        t2 == query([t1 EXCEPT !.returncode = Some(WaitRc(p))])
        w2 == Append(w1, [status |-> t2.status, recycled |-> FALSE])
    IN IF rc(t2) # None /\ Val(rc(t2)) = 0
       THEN [task |-> t2, proc |-> KillTree(p), writes |-> w2, sent |-> children(p) + 1]
       ELSE [task |-> [t2 EXCEPT !.status = CancelStatus(t2)], proc |-> KillTree(p),
             writes |-> Append(w2, [status |-> CancelStatus(t2), recycled |-> FALSE]),
             sent |-> children(p) + 1]

RECURSIVE AssignedAll(_, _)
AssignedAll(trace, writes) ==
  IF writes = <<>> THEN trace
  ELSE AssignedAll(
         IF trace[Len(trace)].status = writes[1].status THEN trace
         ELSE Append(trace, writes[1]),
         Tail(writes))

\* A caller launches one step of the workplan through Launcher.launch.
Launch(n) ==
  \E outcome \in {"spawned", "SubprocessError"}, kids \in 0..MaxKids :
    /\ n \in StepNames(workplan)
    /\ outcome \in LaunchOutcomes(StepOf(workplan, n))
    /\ outcome = "SubprocessError" => kids = 0
    /\ Len(heap) < MaxLaunches
    /\ launch(n, outcome, kids)
    /\ UNCHANGED << planVars, check_counts, orchVars, callVars, extVars, events, reportTrace >>

\* Launcher.update()
Update ==
  /\ heap' = [id \in 1..Len(heap) |->
                IF \E n \in active_tasks : tasks[n] = id
                THEN [heap[id] EXCEPT !.status = _query_status(heap[id])]
                ELSE heap[id]]
  /\ statusTrace' = [id \in 1..Len(heap) |->
                       Assigned(statusTrace[id], heap'[id].status, FALSE)]
  /\ UNCHANGED << planVars, tasks, check_counts, orchVars, procs, callVars, extVars,
                  events, reportTrace >>

\* Launcher.report(item)
Report(n) ==
  /\ n \in StepNames(workplan)
  /\ reportTrace' = [reportTrace EXCEPT ![n] = Observed(@, Reported(n))]
  /\ check_counts' = Counted
  /\ UNCHANGED << planVars, heap, tasks, orchVars, procs, callVars, extVars, events,
                  statusTrace >>

\* Task.query() on a task the launcher returned.
Query(id) ==
  /\ id \in 1..Len(heap)
  /\ heap' = [heap EXCEPT ![id] = query(heap[id])]
  /\ statusTrace' = [statusTrace EXCEPT ![id] = Assigned(@, heap'[id].status, FALSE)]
  /\ lastQuery' = [id |-> id, started |-> heap[id].process, pre |-> procs[id].state,
                   exit |-> procs[id].exit, before |-> heap[id].status,
                   status |-> heap'[id].status, rc |-> rc(heap'[id])]
  /\ lastCancel' = NoCancel
  /\ lastStart' = NoStart
  /\ UNCHANGED << planVars, tasks, check_counts, orchVars, procs, lastOp, rcReads, extVars,
                  events, reportTrace >>

\* The previous call on the task was cancel() too, and nothing has happened to
\* its process since that call returned.
CancelledJustBefore(id) ==
  /\ lastCancel.id = id
  /\ lastCancel.root = procs[id].state
  /\ lastCancel.kids = procs[id].kids

\* Task.cancel() on a task the launcher returned.
Cancel(id) ==
  /\ id \in 1..Len(heap)
  /\ LET r == cancel(heap[id], procs[id])
     IN /\ heap' = [heap EXCEPT ![id] = r.task]
        /\ procs' = [procs EXCEPT ![id] = r.proc]
        /\ statusTrace' = [statusTrace EXCEPT ![id] = AssignedAll(@, r.writes)]
        /\ lastCancel' = [id |-> id, started |-> heap[id].process,
                          pre |-> procs[id].state, exit |-> procs[id].exit,
                          before |-> heap[id].status, rcBefore |-> rc(heap[id]),
                          status |-> r.task.status, rc |-> rc(r.task),
                          root |-> r.proc.state, kids |-> r.proc.kids,
                          signalled |-> r.proc.signalled,
                          kidsSignalled |-> r.proc.kidsSignalled,
                          sent |-> r.sent,
                          again |-> CancelledJustBefore(id),
                          first |-> IF CancelledJustBefore(id)
                                    THEN Some([pre |-> lastCancel.pre,
                                               status |-> lastCancel.status,
                                               rc |-> lastCancel.rc])
                                    ELSE None]
  /\ lastQuery' = NoQuery
  /\ lastStart' = NoStart
  /\ UNCHANGED << planVars, tasks, check_counts, orchVars, lastOp, rcReads, extVars, events,
                  reportTrace >>

\* Task.__init__ for a ProcessHandle source (Task._from_handle): the pid and the
\* creation time of the handle go into the state_bag; the creation time of the
\* process found at the pid is not compared with anything.
_from_handle(n, pid, created_on) ==
  [NewTask(n) EXCEPT !.pid = Some(pid), !.create_time = Some(created_on),
                     !.task_id = Some("handle.key")]

\* A task is a handle task when it has a pid and no Popen object.
IsHandleTask(t) == ~t.process /\ t.pid # None

\* A caller builds Task(source=handle) for a live process it did not spawn: the
\* process the handle was made for (same creation time), or an unrelated one
\* that got the pid later.
FromHandle(n) ==
  \E recycled \in BOOLEAN, kids \in 0..MaxKids :
    LET id == Len(heap) + 1
    IN /\ n \in StepNames(workplan)
       /\ Len(heap) < MaxLaunches
       /\ heap' = Append(heap, _from_handle(n, id, id))
       /\ statusTrace' = Append(statusTrace,
                            << [status |-> "Waiting", recycled |-> FALSE] >>)
       /\ procs' = Append(procs,
                     [state |-> IF recycled THEN "recycled" ELSE "running",
                      exit |-> None, kids |-> kids,
                      ctime |-> IF recycled THEN id + MaxTasks ELSE id,
                      signalled |-> FALSE, kidsSignalled |-> 0])
       /\ UNCHANGED << planVars, tasks, check_counts, orchVars, callVars, extVars, events,
                       reportTrace >>

\* A caller builds Task(source=step) for a step of any application and calls
\* Task.start() on it.
StartTask(app) ==
  \E outcome \in StartOutcomes(Step("A", {}, app)), kids \in 0..MaxKids :
    LET id == Len(heap) + 1
        st == start(NewTask("A"), outcome, id)
    IN /\ Len(heap) < MaxLaunches
       /\ outcome # "spawned" => kids = 0
       /\ heap' = Append(heap, st.task)
       /\ statusTrace' = Append(statusTrace, st.trace)
       /\ procs' = Append(procs,
                     IF outcome = "spawned"
                     THEN [state |-> "running", exit |-> None, kids |-> kids,
                           ctime |-> id, signalled |-> FALSE, kidsSignalled |-> 0]
                     ELSE NoProc)
       /\ lastStart' = [id |-> id, outcome |-> outcome,
                        raised |-> LaunchRaises(outcome), status |-> st.task.status,
                        exception |-> None, made |-> Some(NewTask("A"))]
       /\ lastCancel' = NoCancel
       /\ lastQuery' = NoQuery
       /\ UNCHANGED << planVars, tasks, check_counts, orchVars, lastOp, rcReads, extVars, events,
                       reportTrace >>

\* The error messages a FailTask is constructed with (None: no message).
Exceptions == {None, Some("Unable to launch")}

\* A caller constructs FailTask(source=..., exception=...) from a step, or from
\* the handle of a live process.
NewFailTask(n) ==
  \E exception \in Exceptions, handle \in BOOLEAN :
    LET id == Len(heap) + 1
        made == FailTask(IF handle THEN _from_handle(n, id, id) ELSE NewTask(n),
                         exception)
    IN /\ n \in StepNames(workplan)
       /\ Len(heap) < MaxLaunches
       /\ heap' = Append(heap, made)
       /\ statusTrace' = Append(statusTrace,
                            << [status |-> made.status, recycled |-> FALSE] >>)
       /\ procs' = Append(procs,
                     IF handle
                     THEN [state |-> "running", exit |-> None, kids |-> 0,
                           ctime |-> id, signalled |-> FALSE, kidsSignalled |-> 0]
                     ELSE NoProc)
       /\ lastStart' = [id |-> id, outcome |-> "FailTask", raised |-> FALSE,
                        status |-> made.status, exception |-> exception,
                        made |-> Some(made)]
       /\ lastCancel' = NoCancel
       /\ lastQuery' = NoQuery
       /\ UNCHANGED << planVars, tasks, check_counts, orchVars, lastOp, rcReads, extVars, events,
                       reportTrace >>

\* A descendant of a running process ends by itself.
KidExit(id) ==
  /\ id \in 1..Len(procs)
  /\ procs[id].state = "running"
  /\ procs[id].kids > 0
  /\ procs' = [procs EXCEPT ![id].kids = @ - 1]
  /\ UNCHANGED << planVars, heap, tasks, check_counts, orchVars, callVars, extVars,
                  events, statusTrace, reportTrace >>

\* Something other than the task's Popen object reaps the ended process (SIGCHLD
\* ignored, a wait on any child): its pid is free again.
Reap(id) ==
  /\ id \in 1..Len(procs)
  /\ procs[id].state = "exited"
  /\ procs' = [procs EXCEPT ![id].state = "gone"]
  /\ UNCHANGED << planVars, heap, tasks, check_counts, orchVars, callVars, extVars,
                  events, statusTrace, reportTrace >>

\* The operating system gives the free pid to an unrelated process, created later.
Recycle(id, kids) ==
  /\ id \in 1..Len(procs)
  /\ procs[id].state = "gone"
  /\ procs' = [procs EXCEPT ![id].state = "recycled", ![id].kids = kids,
                            ![id].ctime = @ + MaxTasks]
  /\ UNCHANGED << planVars, heap, tasks, check_counts, orchVars, callVars, extVars,
                  events, statusTrace, reportTrace >>

InitTask ==
  /\ Init
  /\ plannerKind = "serial"
  /\ workplan = << Step("A", {}, "sleep") >>

NextTask ==
  \/ \E n \in Names : Launch(n)
  \/ Update
  \/ \E n \in Names : Report(n)
  \/ \E id \in 1..MaxLaunches : Query(id)
  \/ \E id \in 1..MaxLaunches : Cancel(id)
  \/ \E id \in 1..MaxLaunches, code \in ExitCodes : ProcExit(id, code)
  \/ \E id \in 1..MaxLaunches : KidExit(id)
  \/ \E id \in 1..MaxLaunches : Reap(id)
  \/ \E id \in 1..MaxLaunches, kids \in 0..MaxKids : Recycle(id, kids)

SpecTask == InitTask /\ [][NextTask]_vars

\* Tasks a caller builds and drives itself, without a Launcher.
NextDirect ==
  \/ \E n \in Names : FromHandle(n)
  \/ \E app \in Application \cup {"no-app"} : StartTask(app)
  \/ \E n \in Names : NewFailTask(n)
  \/ \E id \in 1..MaxLaunches : Query(id)
  \/ \E id \in 1..MaxLaunches : Cancel(id)
  \/ \E id \in 1..MaxLaunches, code \in ExitCodes : ProcExit(id, code)
  \/ \E id \in 1..MaxLaunches : KidExit(id)
  \/ \E id \in 1..MaxLaunches : Reap(id)
  \/ \E id \in 1..MaxLaunches, kids \in 0..MaxKids : Recycle(id, kids)

SpecDirect == InitTask /\ [][NextDirect]_vars

\* --------------------------------------------------------- reads of Task.rc
\* The value the latest read of a task's rc returned (None before any read:
\* a read that returns None and no read look the same to the caller's loop).
LastRead(id) ==
  IF id \in DOMAIN rcReads THEN rcReads[id][Len(rcReads[id])] ELSE None

\* A caller reads task.rc. The getter returns the state_bag entry; the branch
\* that would copy process.returncode is entered only when that is None, and
\* nothing polls the process, so the task is left as it was.
ReadRc(id) ==
  /\ id \in 1..Len(heap)
  /\ rcReads' = [i \in (DOMAIN rcReads) \cup {id} |->
                   IF i = id
                   THEN Observed(IF id \in DOMAIN rcReads THEN rcReads[id] ELSE <<>>,
                                 rc(heap[id]))
                   ELSE rcReads[i]]
  /\ UNCHANGED << planVars, heap, tasks, check_counts, orchVars, procs, lastCancel,
                  lastQuery, lastStart, lastOp, extVars, events, statusTrace,
                  reportTrace >>

\* A caller starts a task, or builds one from a handle, and then only reads it
\* (rc, query()) while the process and its descendants run and end.
NextRead ==
  \/ \E app \in Application \cup {"no-app"} : StartTask(app)
  \/ \E n \in Names : FromHandle(n)
  \/ \E id \in 1..MaxLaunches : ReadRc(id)
  \/ \E id \in 1..MaxLaunches : Query(id)
  \/ \E id \in 1..MaxLaunches, code \in ExitCodes : ProcExit(id, code)
  \/ \E id \in 1..MaxLaunches : KidExit(id)
  \/ \E id \in 1..MaxLaunches : Reap(id)
  \/ \E id \in 1..MaxLaunches, kids \in 0..MaxKids : Recycle(id, kids)

\* The caller keeps reading (the `while task.rc is None` loop of the test), and
\* a started process ends.
SpecRead ==
  /\ InitTask
  /\ [][NextRead]_vars
  /\ WF_vars(\E id \in 1..MaxLaunches : ReadRc(id))
  /\ WF_vars(\E id \in 1..MaxLaunches, code \in ExitCodes : ProcExit(id, code))

\* ----------------------------------------------------------------- Planner
\* The workplans a planner is constructed from: steps A, B and C, each with
\* any set of dependencies (itself and the other steps; for C also a name D
\* that is no step).
PlannerWorkplans ==
  { << Step("A", a, "sleep"), Step("B", b, "sleep"), Step("C", c, "sleep") >> :
      a \in SUBSET {"A", "B", "C"}, b \in SUBSET {"A", "B", "C"},
      c \in SUBSET {"A", "B", "C", "D"} }

\* GraphPlanner.plan: `self.step_map[edge[1]]` raises KeyError for a node that
\* is no step of the workplan.
PlanRaises(wp) ==
  \E i \in 1..Len(plan(wp)) : plan(wp)[i] \notin StepNames(wp)

PlannerEvent(ok) == [op |-> "Planner", name |-> "A",
                     outcome |-> IF ok THEN "none" ELSE "KeyError",
                     status |-> "Unknown", ok |-> ok]

\* GraphPlanner(workplan) / SerialPlanner(workplan): the graph is built from
\* dep_map, and SerialPlanner._create_plan flattens it with GraphPlanner.plan.
NewPlanner ==
  /\ events = <<>>
  /\ LET raises == plannerKind = "serial" /\ PlanRaises(workplan)
     IN /\ events' = << PlannerEvent(~raises) >>
        /\ graph' = IF raises THEN graph ELSE _workplan_to_graph(workplan).nodes
        /\ plan_' = IF plannerKind = "serial" /\ ~raises THEN plan(workplan) ELSE plan_
  /\ UNCHANGED << workplan, plannerKind, heap, tasks, check_counts, orchVars, procs,
                  callVars, extVars, statusTrace, reportTrace >>

\* The planner object exists.
Constructed == events # <<>> /\ events[1].op = "Planner" /\ events[1].ok

\* Planner.remove(step) called by the owner of the planner.
PlannerRemove(n) ==
  /\ Constructed
  /\ Len(events) <= MaxRemoves
  /\ n \in StepNames(workplan)
  /\ LET raises == RemoveRaises(plannerKind, graph, plan_, n)
     IN /\ events' = Append(events, RemoveEvent(n, "Unknown", ~raises))
        /\ graph' = IF raises \/ plannerKind = "serial" THEN graph ELSE graph \ {n}
        /\ plan_' = IF raises \/ plannerKind = "graph" THEN plan_
                    ELSE RemoveFirst(plan_, n)
  /\ UNCHANGED << workplan, plannerKind, heap, tasks, check_counts, orchVars, procs,
                  callVars, extVars, statusTrace, reportTrace >>

InitPlanner ==
  /\ workplan \in PlannerWorkplans
  /\ plannerKind \in {"graph", "serial"}
  /\ graph = {}
  /\ plan_ = <<>>
  /\ fn = NoFn
  /\ InitRest

NextPlanner ==
  \/ NewPlanner
  \/ \E n \in Names : PlannerRemove(n)

SpecPlanner == InitPlanner /\ [][NextPlanner]_vars

\* ---------------------------------------------------------------- Launcher
\* Calls on a Launcher with lists of steps and items. Each call is recorded in
\* lastOp with what it was given, found and returned; statusTrace and
\* reportTrace stay the traces of the single-step calls above.
\* Launcher._create_task and the status launch writes, for one step of the
\* list: the task, its trace and the status Task.start left it in.
LaunchedTask(n, outcome, id) ==
  LET st == start(NewTask(n), outcome, id)
      final == LaunchStatus(st.task)
  IN [task |-> [st.task EXCEPT !.status = final],
      started |-> st.task.status]

\* The place of the last step named n in the list (dict assignment keeps the
\* last value written under a key), 0 when the list has no such step.
LastIndex(steps, n) ==
  IF InSeq(steps, n)
  THEN CHOOSE i \in 1..Len(steps) :
         steps[i] = n /\ \A j \in (i + 1)..Len(steps) : steps[j] # n
  ELSE 0

\* A launch that returns the new tasks without adding them to Launcher.tasks.
TableNotUpdated(steps) == tasks

\* Launcher.launch: self.tasks.update(tasks)
TableUpdated(steps) ==
  [n \in Names |-> IF InSeq(steps, n) THEN Len(heap) + LastIndex(steps, n)
                   ELSE tasks[n]]

\* Launcher.launch(steps) for a list of steps of the workplan, none of which
\* makes _create_task raise. The command of a SLEEP step has no descendants.
LaunchSteps(steps) ==
  \E outcome \in [1..Len(steps) -> {"spawned", "SubprocessError"}] :
    LET made == [i \in 1..Len(steps) |->
                   LaunchedTask(steps[i], outcome[i], Len(heap) + i)]
    IN /\ Len(steps) > 0
       /\ Len(heap) + Len(steps) <= MaxLaunched
       /\ \A i \in 1..Len(steps) :
            /\ steps[i] \in StepNames(workplan)
            /\ outcome[i] \in LaunchOutcomes(StepOf(workplan, steps[i]))
       /\ heap' = heap \o [i \in 1..Len(steps) |-> made[i].task]
       /\ procs' = procs \o
            [i \in 1..Len(steps) |->
               IF outcome[i] = "spawned"
               THEN [state |-> "running", exit |-> None, kids |-> 0,
                     ctime |-> Len(heap) + i, signalled |-> FALSE, kidsSignalled |-> 0]
               ELSE NoProc]
       /\ tasks' = TableUpdated(steps)
       /\ lastOp' = [NoOp EXCEPT
            !.op = "launch",
            !.steps = steps,
            !.names = {steps[i] : i \in 1..Len(steps)},
            !.ids = [n \in Names |-> IF InSeq(steps, n)
                                     THEN Len(heap) + LastIndex(steps, n) ELSE 0],
            !.started = [n \in Names |-> IF InSeq(steps, n)
                                         THEN made[LastIndex(steps, n)].started
                                         ELSE "none"],
            !.returned = [n \in Names |-> IF InSeq(steps, n)
                                          THEN made[LastIndex(steps, n)].task.status
                                          ELSE "none"]]
       /\ UNCHANGED << planVars, check_counts, orchVars, lastCancel, lastQuery,
                       lastStart, rcReads, extVars, events, statusTrace, reportTrace >>

\* The status recorded in Launcher.tasks under a name.
Recorded(n) == IF tasks[n] # 0 THEN heap[tasks[n]].status ELSE "none"

\* Launcher.report_all(items); Launcher.report(item) is the call with one item.
ReportAll(items) ==
  /\ items # {}
  /\ check_counts' = Counted
  /\ lastOp' = [NoOp EXCEPT
       !.op = "report_all",
       !.names = items,
       !.before = [n \in Names |-> Recorded(n)],
       !.returned = [n \in Names |-> IF n \in items THEN Reported(n) ELSE "none"]]
  /\ UNCHANGED << planVars, heap, tasks, orchVars, procs, lastCancel, lastQuery,
                  lastStart, rcReads, extVars, events, statusTrace, reportTrace >>

\* Launcher.update: check_on = self.active_tasks
check_on == active_tasks

\* SlurmJobStatus.map_status: the statuses a sacct state is mapped to.
sacct_status_map == {"Unknown", "Waiting", "Active", "Done", "Aborted", "Failed"}

\* Launcher.update() with the _query_status of the launcher: the one of
\* Launcher itself, or an override (SlurmLauncher, a test's mock) that answers
\* with what the backend says.
UpdateFrom ==
  \E latest_status \in [check_on -> sacct_status_map], override \in BOOLEAN :
    LET answer == [n \in check_on |->
                     IF override THEN latest_status[n]
                     ELSE _query_status(heap[tasks[n]])]
    IN /\ ~override => \A n \in check_on : latest_status[n] = "Unknown"
       /\ heap' = [id \in 1..Len(heap) |->
                     IF \E n \in check_on : tasks[n] = id
                     THEN [heap[id] EXCEPT !.status =
                             answer[CHOOSE n \in check_on : tasks[n] = id]]
                     ELSE heap[id]]
       /\ lastOp' = [NoOp EXCEPT
            !.op = "update",
            !.names = check_on,
            !.before = [n \in Names |-> Recorded(n)],
            !.answer = [n \in Names |-> IF n \in check_on THEN answer[n] ELSE "none"],
            !.after = [n \in Names |->
                         IF tasks[n] # 0 THEN heap'[tasks[n]].status ELSE "none"],
            !.reported = [n \in Names |->
                            IF tasks[n] = 0 THEN "Unknown"
                            ELSE IF check_counts[n] < state_transition_threshold
                            THEN heap'[tasks[n]].status ELSE "Done"]]
       /\ UNCHANGED << planVars, tasks, check_counts, orchVars, procs, lastCancel,
                       lastQuery, lastStart, rcReads, extVars, events, statusTrace, reportTrace >>

\* The lists of steps a caller hands to Launcher.launch.
StepLists ==
  UNION {[1..k -> {"A", "B"}] : k \in 1..MaxSteps}

InitLauncher ==
  /\ Init
  /\ plannerKind = "serial"
  /\ workplan = << Step("A", {}, "sleep"), Step("B", {"A"}, "sleep") >>

NextLauncher ==
  \/ \E steps \in StepLists : LaunchSteps(steps)
  \/ \E items \in SUBSET {"A", "B", "C"} : ReportAll(items)
  \/ UpdateFrom

SpecLauncher == InitLauncher /\ [][NextLauncher]_vars

\* A caller that only launches, while the launched processes run and end.
NextLaunch ==
  \/ \E steps \in StepLists : LaunchSteps(steps)
  \/ \E id \in 1..MaxLaunched, code \in ExitCodes : ProcExit(id, code)

SpecLaunch == InitLauncher /\ [][NextLaunch]_vars

\* ---------------------------------------------------------- SlurmJobStatus
\* Raw status strings are sequences of pieces: a word in some casing, or a
\* blank. No string has two spellings as a sequence of pieces.
Blanks == {" ", "\t"}
RawWords == {"PENDING", "pending", "Pending", "RUNNING", "running", "COMPLETED",
             "completed", "CANCELLED", "Cancelled", "FAILED", "failed",
             "TIMEOUT", "by"}
RawStatuses == UNION {[1..k -> RawWords \cup Blanks] : k \in 0..MaxPieces}

\* str.upper() on one piece.
UpperPiece(w) ==
  CASE w \in {"PENDING", "pending", "Pending"} -> "PENDING"
    [] w \in {"RUNNING", "running"} -> "RUNNING"
    [] w \in {"COMPLETED", "completed"} -> "COMPLETED"
    [] w \in {"CANCELLED", "Cancelled"} -> "CANCELLED"
    [] w \in {"FAILED", "failed"} -> "FAILED"
    [] w = "by" -> "BY"
    [] OTHER -> w

\* str.upper()
upper(s) == [i \in 1..Len(s) |-> UpperPiece(s[i])]

\* str.strip(): leading and trailing blanks removed.
RECURSIVE strip(_)
strip(s) ==
  IF s = <<>> THEN s
  ELSE IF s[1] \in Blanks THEN strip(Tail(s))
  ELSE IF s[Len(s)] \in Blanks THEN strip(SubSeq(s, 1, Len(s) - 1))
  ELSE s

\* A map_status that looks the raw string up as it is.
MapStatusAsWritten(raw_status) ==
  IF raw_status = <<>> \/ strip(raw_status) = <<>> THEN "ValueError"
  ELSE CASE raw_status = << "PENDING" >> -> "Waiting"
         [] raw_status = << "RUNNING" >> -> "Active"
         [] raw_status = << "COMPLETED" >> -> "Done"
         [] raw_status = << "CANCELLED" >> -> "Aborted"
         [] raw_status = << "FAILED" >> -> "Failed"
         [] OTHER -> "Unknown"

\* SlurmJobStatus.map_status: the status, or the ValueError raised.
map_status(raw_status) ==
  IF raw_status = <<>> \/ strip(raw_status) = <<>> THEN "ValueError"
  ELSE LET key == upper(raw_status)
       IN CASE key = << "PENDING" >> -> "Waiting"
            [] key = << "RUNNING" >> -> "Active"
            [] key = << "COMPLETED" >> -> "Done"
            [] key = << "CANCELLED" >> -> "Aborted"
            [] key = << "FAILED" >> -> "Failed"
            [] OTHER -> "Unknown"

\* SlurmJobStatus.is_terminated
is_terminated(state) == state \in {"Done", "Aborted", "Failed"}

\* SlurmJobStatus.is_running
is_running(state) == state \in {"Waiting", "Active"}

\* SlurmJobStatus.from_raw(raw_state): the job status object with its two
\* properties, or the ValueError raised (no object is made then).
from_raw(raw_state) ==
  IF raw_state = <<>> \/ strip(raw_state) = <<>>
       \/ map_status(raw_state) = "ValueError"
  THEN [raised |-> TRUE, state |-> "none", is_terminated |-> FALSE,
        is_running |-> FALSE]
  ELSE [raised |-> FALSE, state |-> map_status(raw_state),
        is_terminated |-> is_terminated(map_status(raw_state)),
        is_running |-> is_running(map_status(raw_state))]

\* A caller maps a raw status and builds the job status from it.
MapStatus ==
  /\ fn.op = "map_status"
  /\ ~fn.done
  /\ fn' = [fn EXCEPT !.done = TRUE,
                      !.result = Some([status |-> map_status(Val(fn.args)),
                                       job |-> from_raw(Val(fn.args))])]
  /\ UNCHANGED << engineVars, svc, chk >>

InitMapStatus ==
  /\ workplan = << Step("A", {}, "sleep") >>
  /\ plannerKind = "serial"
  /\ graph = {}
  /\ plan_ = <<>>
  /\ fn \in {[NoFn EXCEPT !.op = "map_status", !.args = Some(raw)] :
               raw \in RawStatuses}
  /\ InitRest

SpecMapStatus == InitMapStatus /\ [][MapStatus]_vars

\* ----------------------------------------------------------- SlurmLauncher
\* SlurmLauncher.job_id: __init__ assigns nothing (the attribute does not
\* exist), allocate() sets the mock id.
JobIds == {None, Some("mock-slurm-job-id")}

\* What sacct answers: lines of (job id, raw state, job name), the raw state
\* possibly empty.
StatusLines ==
  UNION {[1..k -> [jid : {"1"},
                   raw_status : {<< "RUNNING" >>, << "COMPLETED" >>, <<>>},
                   job_name : {"A", "B"}]] : k \in 0..MaxLines}

\* The task_ids argument: None or a list of names.
TaskIds == UNION {[1..k -> {"A", "B"}] : k \in 0..MaxLines}

\* SlurmLauncher._retrieve_status: reading self.job_id raises AttributeError
\* when nothing has set it; otherwise the lines of the sacct answer.
_retrieve_status(job_id, status_lines) ==
  IF job_id = None THEN [raised |-> "AttributeError", lines |-> <<>>]
  ELSE [raised |-> "none", lines |-> status_lines]

\* The names the lines mention, and the last line of a name (a later
\* assignment to results[job_name] replaces an earlier one).
Mentioned(lines) == {lines[i].job_name : i \in 1..Len(lines)}
LastLine(lines, n) ==
  lines[CHOOSE i \in 1..Len(lines) :
          lines[i].job_name = n /\ \A j \in (i + 1)..Len(lines) : lines[j].job_name # n]

\* SlurmLauncher._query_status(task_ids): the map returned, or the error
\* raised. `results[task_id]` raises KeyError for a name no line mentions.
Slurm_query_status(job_id, status_lines, task_ids) ==
  LET got == _retrieve_status(job_id, status_lines)
      lines == got.lines
      results == [n \in Mentioned(lines) |-> map_status(LastLine(lines, n).raw_status)]
      asked == {task_ids[i] : i \in 1..Len(task_ids)}
  IN IF got.raised # "none" THEN [raised |-> got.raised, results |-> <<>>]
     ELSE IF \E i \in 1..Len(lines) : map_status(lines[i].raw_status) = "ValueError"
     THEN [raised |-> "ValueError", results |-> <<>>]
     ELSE IF task_ids = <<>> THEN [raised |-> "none", results |-> results]
     ELSE IF \E n \in asked : n \notin Mentioned(lines)
     THEN [raised |-> "KeyError", results |-> <<>>]
     ELSE [raised |-> "none", results |-> [n \in asked |-> results[n]]]

\* A caller asks a SlurmLauncher for the statuses of some names.
QueryStatus ==
  /\ fn.op = "_query_status"
  /\ ~fn.done
  /\ fn' = [fn EXCEPT !.done = TRUE,
                      !.result = Some(Slurm_query_status(Val(fn.args).job_id,
                                                         Val(fn.args).status_lines,
                                                         Val(fn.args).task_ids))]
  /\ UNCHANGED << engineVars, svc, chk >>

InitQueryStatus ==
  /\ workplan = << Step("A", {}, "sleep") >>
  /\ plannerKind = "serial"
  /\ graph = {}
  /\ plan_ = <<>>
  /\ fn \in {[NoFn EXCEPT !.op = "_query_status",
                           !.args = Some([job_id |-> j, status_lines |-> l,
                                          task_ids |-> t])] :
               j \in JobIds, l \in StatusLines, t \in TaskIds}
  /\ InitRest

SpecQueryStatus == InitQueryStatus /\ [][QueryStatus]_vars

\* -------------------------------------------------------------- transforms
\* datetime values without time zone: the first day, a day in the middle and
\* the 31st (in the months that have one), at midnight and at noon.
Years == FirstYear..(FirstYear + MaxYears - 1)
Days == {1, 15, 31}
Hours == {0, 12}
Datetimes ==
  {d \in [year : Years, month : 1..12, day : Days, hour : Hours] :
     d.day = 31 => d.month \in {1, 3, 5, 7, 8, 10, 12}}

\* datetime(year, month, day, hour)
datetime(y, m, d, h) == [year |-> y, month |-> m, day |-> d, hour |-> h]

\* The order of datetime values (a < b).
Ticks(d) == ((d.year * 12 + d.month) * 32 + d.day) * 24 + d.hour
Before(a, b) == Ticks(a) < Ticks(b)

\* get_time_slices, the loop: one (month_start, month_end) pair per month
\* from current_date until end_date is reached.
RECURSIVE month_slices(_, _)
month_slices(current_date, end_date) ==
  IF Before(current_date, end_date)
  THEN LET month_start == current_date
           month_end == IF month_start.month = 12
                        THEN datetime(current_date.year + 1, 1, 1, 0)
                        ELSE datetime(current_date.year, month_start.month + 1, 1, 0)
       IN << << month_start, month_end >> >> \o month_slices(month_end, end_date)
  ELSE <<>>

\* A get_time_slices that does not clip the last slice to end_date.
GetTimeSlicesWholeMonths(start_date, end_date) ==
  LET time_slices == month_slices(datetime(start_date.year, start_date.month, 1, 0),
                                  end_date)
  IN IF time_slices = <<>> THEN [raised |-> "IndexError", slices |-> <<>>]
     ELSE [raised |-> "none",
           slices |-> IF Before(time_slices[1][1], start_date)
                      THEN [time_slices EXCEPT ![1][1] = start_date]
                      ELSE time_slices]

\* get_time_slices(start_date, end_date): the list returned, or the
\* IndexError of time_slices[0] when the loop made no slice.
get_time_slices(start_date, end_date) ==
  LET time_slices == month_slices(datetime(start_date.year, start_date.month, 1, 0),
                                  end_date)
      first == IF Before(time_slices[1][1], start_date)
               THEN [time_slices EXCEPT ![1][1] = start_date]
               ELSE time_slices
      last == IF Before(end_date, first[Len(first)][2])
              THEN [first EXCEPT ![Len(first)][2] = end_date]
              ELSE first
  IN IF time_slices = <<>> THEN [raised |-> "IndexError", slices |-> <<>>]
     ELSE [raised |-> "none", slices |-> last]

\* A caller asks for the time slices of a span.
GetTimeSlices ==
  /\ fn.op = "get_time_slices"
  /\ ~fn.done
  /\ fn' = [fn EXCEPT !.done = TRUE,
                      !.result = Some(get_time_slices(Val(fn.args).start_date,
                                                      Val(fn.args).end_date))]
  /\ UNCHANGED << engineVars, svc, chk >>

InitTimeSlices ==
  /\ workplan = << Step("A", {}, "roms_marbl") >>
  /\ plannerKind = "serial"
  /\ graph = {}
  /\ plan_ = <<>>
  /\ fn \in {[NoFn EXCEPT !.op = "get_time_slices",
                           !.args = Some([start_date |-> s, end_date |-> e])] :
               s \in Datetimes, e \in Datetimes}
  /\ InitRest

SpecTimeSlices == InitTimeSlices /\ [][GetTimeSlices]_vars

\* ------------------------------------------------- RomsMarblTimeSplitter
\* str and Path values: `/` is defined on a Path and not between two str.
Str(x) == [type |-> "str", val |-> x]
Path(s) == [type |-> "Path", val |-> s.val]
as_posix(p) == [type |-> "str", val |-> p.val]
truediv(a, b) == IF a.type = "Path"
                 THEN Some([type |-> "Path", val |-> << a.val, b.val >>])
                 ELSE None

\* time_slice[k].strftime('%Y:%m:%d'): the time of day is not printed.
strftime_date(d) == << d.year, d.month, d.day >>
\* time_slice[k].strftime("%Y-%m-%d %H:%M:%S")
strftime_full(d) == << d.year, d.month, d.day, d.hour, 0, 0 >>

\* f"{step.name}_{from}-{to}"
SubStepName(step, time_slice) ==
  [step |-> step.name, from |-> strftime_date(time_slice[1]),
   to |-> strftime_date(time_slice[2])]

\* str.casefold on the step names of the model.
casefold(s) == CASE s = "A" -> "a" [] s = "B" -> "b" [] s = "C" -> "c"
                 [] s = "D" -> "d" [] OTHER -> s

\* slugify(step_name): casefolded, and without the ':' and '-' of the dates
\* (the '_' is a word character and stays).
slugify(step_name) ==
  Str([slug |-> casefold(step_name.step), digits |-> step_name.from \o step_name.to])

\* The blueprint that deserialize(step.blueprint, RomsMarblBlueprint) returns,
\* as far as split reads it.
RomsMarblBlueprint(start_date, end_date, output_dir) ==
  [runtime_params |-> [start_date |-> start_date, end_date |-> end_date,
                       output_dir |-> output_dir]]

\* The depends_on lists of the step that is split.
SplitDependsOn == {{}, {"B"}}

\* The generator frame before the first next().
NewSplit == [pc |-> "created", raised |-> "none", steps |-> <<>>,
             time_slices |-> <<>>, depends_on |-> {}, last_output_dir |-> None]

\* split, one turn of `for time_slice in time_slices` up to its yield: the
\* name and output directory of the sub-step, `last_output_dir / "roms.nc"`
\* after the first turn (TypeError when it cannot be computed), the Step that
\* is yielded (Step ignores the initial_conditions key), and the two
\* assignments that follow the yield when the generator is resumed.
SplitBody(step, output_root, g) ==
  LET time_slice == g.time_slices[Len(g.steps) + 1]
      step_name == SubStepName(step, time_slice)
      output_dir == as_posix(Val(truediv(output_root, slugify(step_name))))
  IN IF g.last_output_dir # None
        /\ truediv(Val(g.last_output_dir), Str("roms.nc")) = None
     THEN [g EXCEPT !.pc = "raised", !.raised = "TypeError"]
     ELSE [g EXCEPT !.pc = "yielded",
                    !.steps = Append(@, [name |-> step_name,
                                         application |-> step.application,
                                         depends_on |-> g.depends_on,
                                         blueprint_overrides |->
                                           [start_date |-> strftime_full(time_slice[1]),
                                            end_date |-> strftime_full(time_slice[2]),
                                            output_dir |-> output_dir]]),
                    !.depends_on = {step_name},
                    !.last_output_dir = Some(output_dir)]

\* next() on the generator made by RomsMarblTimeSplitter.split(step): the
\* first one reads the dates of the blueprint, raises ValueError unless
\* start_date < end_date, and computes the slices; each one runs the loop to
\* its next yield, to an exception, or to its end (StopIteration).
split(a, g) ==
  LET start_date == a.blueprint.runtime_params.start_date
      end_date == a.blueprint.runtime_params.end_date
      output_root == Path(a.blueprint.runtime_params.output_dir)
      begun == IF g.pc # "created" THEN g
               ELSE [g EXCEPT !.time_slices =
                                 get_time_slices(start_date, end_date).slices,
                              !.depends_on = a.step.depends_on]
  IN IF g.pc = "created" /\ ~Before(start_date, end_date)
     THEN [g EXCEPT !.pc = "raised", !.raised = "ValueError"]
     ELSE IF Len(begun.steps) = Len(begun.time_slices)
     THEN [begun EXCEPT !.pc = "exhausted"]
     ELSE SplitBody(a.step, output_root, begun)

\* The caller of split takes the next sub-step from the generator.
SplitNext ==
  /\ fn.op = "split"
  /\ ~fn.done
  /\ LET g == split(Val(fn.args), Val(fn.result))
     IN fn' = [fn EXCEPT !.done = g.pc \in {"raised", "exhausted"},
                         !.result = Some(g)]
  /\ UNCHANGED << engineVars, svc, chk >>

InitSplit ==
  /\ workplan = << Step("A", {}, "roms_marbl") >>
  /\ plannerKind = "serial"
  /\ graph = {}
  /\ plan_ = <<>>
  /\ fn \in {[NoFn EXCEPT !.op = "split",
                           !.args = Some([step |-> Step("A", deps, "roms_marbl"),
                                          blueprint |->
                                            RomsMarblBlueprint(s, e, Str("out"))]),
                           !.result = Some(NewSplit)] :
               deps \in SplitDependsOn, s \in Datetimes, e \in Datetimes}
  /\ InitRest

SpecSplit == InitSplit /\ [][SplitNext]_vars

\* ---------------------------------------------------------------- Service
\* Values of ServiceConfiguration.loop_delay and .health_check_frequency.
LoopDelays == {0, 1}
HealthCheckFrequencies == {0 - 1, 0, 1}

Sat(n) == IF n < MaxCalls THEN n + 1 ELSE n

Step_(f) == /\ svc' = f
            /\ UNCHANGED << engineVars, chk, fn >>

\* Service.__init__(config)
ServiceInit ==
  /\ svc.pc = "new"
  /\ \E a \in BOOLEAN, d \in LoopDelays, h \in HealthCheckFrequencies :
       Step_([svc EXCEPT !.pc = "ready",
                         !._config = [as_service |-> a, loop_delay |-> d,
                                      health_check_frequency |-> h]])

\* Service._start_healthcheck, called first by execute(): with a frequency of
\* at least 0 it makes the queue and starts the thread. The thread starts with
\* last_health_check = now, so a check is due at once only for frequency 0.
_start_healthcheck ==
  /\ svc.pc = "ready"
  /\ Step_(IF svc._config.health_check_frequency >= 0
           THEN [svc EXCEPT !.pc = "on_start", !._hc_queue = Some(0), !.hc = "top",
                            !.due = (svc._config.health_check_frequency = 0)]
           ELSE [svc EXCEPT !.pc = "on_start"])

\* An _on_start whose exception is logged without leaving execute().
OnStartFailureIgnored ==
  /\ svc.pc = "on_start"
  /\ \E raises \in BOOLEAN :
       Step_([svc EXCEPT !.pc = "iterate", !.running = TRUE,
                        !.raised = IF raises THEN @ \cup {"_on_start"} ELSE @])

\* execute(): self._on_start(); an exception is logged and execute returns.
_on_start ==
  /\ svc.pc = "on_start"
  /\ \E raises \in BOOLEAN :
       Step_(IF raises
             THEN [svc EXCEPT !.pc = "returned", !.raised = @ \cup {"_on_start"}]
             ELSE [svc EXCEPT !.pc = "iterate", !.running = TRUE])

\* execute(): `while running:` entered, self._on_iteration() is called.
BeginIteration ==
  /\ svc.pc = "iterate"
  /\ Step_([svc EXCEPT !.pc = "in_iteration",
                       !.iterations = Sat(@),
                       !.iteration_failed = FALSE,
                       !.iteration_after_failure = @ \/ "_on_iteration" \in svc.raised,
                       !.iteration_after_stop = @ \/ svc.stop])

\* An _on_iteration whose exception is logged while running stays True.
OnIterationFailureKeepsRunning ==
  /\ svc.pc = "in_iteration"
  /\ \E raises \in BOOLEAN :
       Step_(IF raises
             THEN [svc EXCEPT !.pc = "after_iteration", !.iteration_failed = TRUE,
                              !.raised = @ \cup {"_on_iteration"}]
             ELSE [svc EXCEPT !.pc = "on_complete"])

\* execute(): self._on_iteration() returns (the else branch follows) or raises
\* (running = False, logged).
_on_iteration ==
  /\ svc.pc = "in_iteration"
  /\ \E raises \in BOOLEAN :
       Step_(IF raises
             THEN [svc EXCEPT !.pc = "after_iteration", !.running = FALSE,
                              !.iteration_failed = TRUE,
                              !.raised = @ \cup {"_on_iteration"}]
             ELSE [svc EXCEPT !.pc = "on_complete"])

\* execute(): `else: self._on_iteration_complete()`; its exception is caught
\* by nothing and leaves execute().
_on_iteration_complete ==
  /\ svc.pc = "on_complete"
  /\ \E raises \in BOOLEAN :
       Step_(IF raises
             THEN [svc EXCEPT !.pc = "propagated", !.completions = Sat(@),
                              !.complete_after_failure = @ \/ svc.iteration_failed,
                              !.raised = @ \cup {"_on_iteration_complete"}]
             ELSE [svc EXCEPT !.pc = "after_iteration", !.completions = Sat(@),
                              !.complete_after_failure = @ \/ svc.iteration_failed])

\* The as_service test without its `continue`.
AsServiceTestFallsThrough ==
  /\ svc.pc = "after_iteration"
  /\ Step_(IF ~svc._config.as_service
           THEN [svc EXCEPT !.pc = "can_shutdown", !.running = FALSE]
           ELSE [svc EXCEPT !.pc = "can_shutdown"])

\* execute(): `if not self._config.as_service: running = False; continue`
AsServiceTest ==
  /\ svc.pc = "after_iteration"
  /\ Step_(IF ~svc._config.as_service
           THEN [svc EXCEPT !.pc = "exit_loop", !.running = FALSE]
           ELSE [svc EXCEPT !.pc = "can_shutdown"])

\* A _can_shutdown whose True is not written to running.
CanShutdownIgnored ==
  /\ svc.pc = "can_shutdown"
  /\ \E result \in {"True", "False", "raises"} :
       Step_(CASE result = "True" ->
                    [svc EXCEPT !.pc = "delay", !.stop = TRUE,
                                !.can_shutdown_calls = Sat(@)]
               [] result = "False" ->
                    [svc EXCEPT !.pc = "delay", !.can_shutdown_calls = Sat(@)]
               [] OTHER ->
                    [svc EXCEPT !.pc = "propagated", !.can_shutdown_calls = Sat(@),
                                !.raised = @ \cup {"_can_shutdown"}])

\* execute(): `if self._can_shutdown(): running = False`
_can_shutdown ==
  /\ svc.pc = "can_shutdown"
  /\ \E result \in {"True", "False", "raises"} :
       Step_(CASE result = "True" ->
                    [svc EXCEPT !.pc = "delay", !.running = FALSE, !.stop = TRUE,
                                !.can_shutdown_calls = Sat(@)]
               [] result = "False" ->
                    [svc EXCEPT !.pc = "delay", !.can_shutdown_calls = Sat(@)]
               [] OTHER ->
                    [svc EXCEPT !.pc = "propagated", !.can_shutdown_calls = Sat(@),
                                !.raised = @ \cup {"_can_shutdown"}])

\* execute(): `if self._config.loop_delay:` _on_delay (its exception is caught
\* by nothing and leaves execute()) and asyncio.sleep, then the `while running`
\* test.
Delay ==
  /\ svc.pc = "delay"
  /\ \E raises \in BOOLEAN :
       Step_(IF svc._config.loop_delay # 0 /\ raises
             THEN [svc EXCEPT !.pc = "propagated", !.delays = Sat(@),
                              !.raised = @ \cup {"_on_delay"}]
             ELSE [svc EXCEPT !.pc = IF svc.running THEN "iterate" ELSE "exit_loop",
                              !.delays = IF svc._config.loop_delay # 0
                                         THEN Sat(@) ELSE @])

\* execute(), after the loop: `if self._hc_queue: self._hc_queue.put_nowait("quit")`
PutQuit ==
  /\ svc.pc = "exit_loop"
  /\ Step_(IF svc._hc_queue # None
           THEN [svc EXCEPT !.pc = "join", !._hc_queue = Some(Val(@) + 1),
                            !.tokens = Sat(@)]
           ELSE [svc EXCEPT !.pc = "join"])

\* A shutdown that does not join the health-check thread.
JoinSkipped ==
  /\ svc.pc = "join"
  /\ Step_([svc EXCEPT !.pc = "on_shutdown"])

\* execute(): `if self._hc_thread and self._hc_thread.is_alive(): join()`;
\* join returns when the thread has ended.
Join ==
  /\ svc.pc = "join"
  /\ svc.hc \in {"none", "exited", "dead"}
  /\ Step_([svc EXCEPT !.pc = "on_shutdown"])

\* execute(): self._on_shutdown(); an exception is logged, execute returns.
_on_shutdown ==
  /\ svc.pc = "on_shutdown"
  /\ \E raises \in BOOLEAN :
       Step_([svc EXCEPT !.pc = "returned", !.shutdowns = Sat(@),
                        !.shutdown_begun = TRUE,
                        !.shutdown_before_join = @ \/ svc.hc \in {"top", "get"},
                        !.raised = IF raises THEN @ \cup {"_on_shutdown"} ELSE @])

\* Service._healthcheck, first half of a turn of its loop: when the frequency
\* has elapsed since the last check, self._on_health_check() is called (its
\* exception ends the thread) and last_health_check is reset.
HealthCheck ==
  /\ svc.hc = "top"
  /\ \E raises \in BOOLEAN :
       Step_(IF svc.due
             THEN [svc EXCEPT !.hc = IF raises THEN "dead" ELSE "get",
                              !.checked = TRUE,
                              !.due = (svc._config.health_check_frequency = 0),
                              !.check_after_shutdown = @ \/ svc.shutdown_begun,
                              !.raised = IF raises THEN @ \cup {"_on_health_check"} ELSE @]
             ELSE IF raises THEN svc
             ELSE [svc EXCEPT !.hc = "get", !.checked = FALSE])

\* A msg_queue.get without timeout: it returns only when a token is there.
QueueGetBlocks ==
  /\ svc.hc = "get"
  /\ Val(svc._hc_queue) > 0
  /\ Step_([svc EXCEPT !.hc = "exited", !._hc_queue = Some(Val(@) - 1),
                       !.checked = FALSE])

\* Service._healthcheck, second half: msg_queue.get(True, timeout=frequency).
\* A token ends the loop; Empty is raised after the timeout (also while a token
\* that was just put has not reached the reading end), and by then the
\* frequency has elapsed.
QueueGet ==
  /\ svc.hc = "get"
  /\ \E got \in BOOLEAN :
       /\ got => Val(svc._hc_queue) > 0
       /\ Step_(IF got
                THEN [svc EXCEPT !.hc = "exited", !._hc_queue = Some(Val(@) - 1),
                                 !.checked = FALSE]
                ELSE [svc EXCEPT !.hc = "top", !.due = TRUE, !.checked = FALSE])

InitService ==
  /\ Init
  /\ plannerKind = "serial"
  /\ workplan = << Step("A", {}, "sleep") >>

MainThread ==
  \/ ServiceInit
  \/ _start_healthcheck
  \/ _on_start
  \/ BeginIteration
  \/ _on_iteration
  \/ _on_iteration_complete
  \/ AsServiceTest
  \/ _can_shutdown
  \/ Delay
  \/ PutQuit
  \/ Join
  \/ _on_shutdown

HealthCheckThread == HealthCheck \/ QueueGet

NextService == MainThread \/ HealthCheckThread

SpecService == InitService /\ [][NextService]_vars

\* The operating system schedules the health-check thread whenever it can run.
SpecServiceFair == SpecService /\ WF_vars(HealthCheck) /\ WF_vars(QueueGet)

\* ----------------------------------------------------------- status check
\* The state a run of the check_status task ends in: it returned a status, or
\* raised CstarIncompleteError carrying the status, or raised another error.
Completed(st) == [kind |-> "completed", status |-> st]
Incomplete(st) == [kind |-> "incomplete", status |-> st]
Errored == [kind |-> "error", status |-> "Unknown"]

\* StatusCheckHandler.handle raises instead of answering: the sacct command
\* fails, the job id is invalid, the task is not in the answer, or the result
\* of the plain method Launcher.query_single cannot be awaited.
BackendError == "BackendError"
Answers == {TaskStatus[i] : i \in 1..Len(TaskStatus)} \cup {BackendError}

\* A check_status that takes every status from Active on as complete.
CheckStatusFromActive(task_name, answer) ==
  IF task_name = "" \/ answer = BackendError THEN Errored
  ELSE IF Ge(answer, "Active") THEN Completed(answer)
  ELSE Incomplete(answer)

\* check_status(request), given what the handler answers the probe with.
check_status(task_name, answer) ==
  IF task_name = "" \/ answer = BackendError THEN Errored
  ELSE IF Gt(answer, "Active") THEN Completed(answer)
  ELSE Incomplete(answer)

\* A retry condition that gives up on an incomplete status.
RetryNever(state) == FALSE

\* retry_handler(task, task_run, state): state.result() gives the status or
\* raises what the run raised; CstarIncompleteError asks for a retry, another
\* error leaves the handler (and the task is not retried).
retry_handler(state) ==
  CASE state.kind = "completed" -> Lt(state.status, "Done")
    [] state.kind = "incomplete" -> TRUE
    [] OTHER -> FALSE

\* handle_request(request) is called.
HandleRequest ==
  /\ chk.pc = "idle"
  /\ \E name \in {"", "A"} :
       chk' = [chk EXCEPT !.pc = "probing", !.task_name = name]
  /\ UNCHANGED << engineVars, svc, fn >>

\* One run of check_status inside handle_request: the probe, and then either
\* the task's retry (a failed run, retries left, retry_handler asks for it) or
\* the end of handle_request, which returns the status, the status carried by
\* CstarIncompleteError, or lets another error through.
Probe ==
  /\ chk.pc = "probing"
  /\ \E st \in Answers :
       LET state == check_status(chk.task_name, st)
           probed == chk.task_name # "" /\ st # BackendError
           c == [chk EXCEPT !.attempts = @ + 1,
                            !.incomplete = IF probed /\ ~Gt(st, "Active")
                                           THEN @ + 1 ELSE @,
                            !.seen = IF probed THEN @ \cup {st} ELSE @,
                            !.last = IF probed THEN st ELSE @]
       IN chk' = IF state.kind = "completed"
                 THEN [c EXCEPT !.pc = "returned", !.result = state.status]
                 ELSE IF c.attempts <= retries /\ retry_handler(state)
                 THEN c
                 ELSE IF state.kind = "incomplete"
                 THEN [c EXCEPT !.pc = "returned", !.result = state.status]
                 ELSE [c EXCEPT !.pc = "raised",
                                !.error = IF chk.task_name = "" THEN "ValueError"
                                          ELSE BackendError]
  /\ UNCHANGED << engineVars, svc, fn >>

NextCheck == HandleRequest \/ Probe

SpecCheck == InitService /\ [][NextCheck]_vars

\* ---------------------------------------------------------------- claims
LaunchAt(i, n) == events[i].op = "launch" /\ events[i].name = n
RemoveAt(i, n) == events[i].op = "remove" /\ events[i].name = n
RemovedAt(i, n) == RemoveAt(i, n) /\ events[i].ok
Retired(n) == \E i \in 1..Len(events) : RemovedAt(i, n)
AllRetired == \A n \in StepNames(workplan) : Retired(n)
AllSpawned == \A i \in 1..Len(events) :
                events[i].op = "launch" => events[i].outcome = "spawned"

\* C1: every Launcher.launch call for a step s comes after, for each d in
\* s.depends_on, a Planner.remove call for d made when d's task was Done.
C1_LaunchAfterDependencies ==
  \A i \in 1..Len(events) : \A n \in StepNames(workplan) :
    LaunchAt(i, n) =>
      \A d \in StepOf(workplan, n).depends_on :
        \E j \in 1..(i - 1) : RemovedAt(j, d) /\ events[j].status = "Done"

\* C3: once Planner.remove has been called for every step of the workplan,
\* next() returns None, in that state and in every later one.
C3_ExhaustedPlannerReturnsNone ==
  AllRetired => next(plannerKind, workplan, plan_) = None

\* C4: when every launch spawns its process, Orchestrator.run() does not end
\* with an error but returns, and when it returns every step has been removed
\* from the planner and its task is in task_archive; the task of a single-step
\* plan then went Waiting, Ready, Active, Done.
C4_RunReturnsWithAllRetired ==
  /\ ~(runState = "raised" /\ AllSpawned)
  /\ runState = "returned" =>
       \A n \in StepNames(workplan) : Retired(n) /\ task_archive[n] # 0
  /\ (runState = "returned" /\ Len(workplan) = 1 /\ AllSpawned) =>
       [i \in 1..Len(statusTrace[1]) |-> statusTrace[1][i].status]
         = <<"Waiting", "Ready", "Active", "Done">>

\* C5: run_step for a step that has no Task record and whose launch succeeds
\* raises no error, stores the task in task_lookup and returns Active.
C5_RunStepStartsTask ==
  (~lastCall.hadRecord /\ lastCall.outcome = "spawned") =>
     /\ lastCall.kind = "returned"
     /\ lastCall.value = "Active"
     /\ task_lookup[lastCall.step] # 0

\* C6: when Launcher.launch raises for a step, a FailTask with status Failed is
\* in task_archive under the step's name, the step is not in task_lookup, and
\* run() goes on instead of raising.
C6_LaunchFailureArchived ==
  (~lastCall.hadRecord /\ LaunchRaises(lastCall.outcome)) =>
     /\ task_archive[lastCall.step] # 0
     /\ heap[task_archive[lastCall.step]].status = "Failed"
     /\ task_lookup[lastCall.step] = 0
     /\ lastCall.kind = "returned"
     /\ runState # "raised"

\* C7: Planner.remove is called at most once for each step over a run (once for
\* every step when run() returns), and a step that was removed and archived is
\* never launched again.
C7_RemovedOnceNeverRelaunched ==
  /\ \A n \in StepNames(workplan) :
       Cardinality({i \in 1..Len(events) : RemoveAt(i, n)}) <= 1
  /\ runState = "returned" => AllRetired
  /\ \A n \in StepNames(workplan) : \A i, j \in 1..Len(events) :
       (i < j /\ RemovedAt(i, n)) => ~LaunchAt(j, n)

\* C8: no step name is a key of both task_lookup and task_archive.
C8_LookupArchiveDisjoint ==
  \A n \in Names : ~(task_lookup[n] # 0 /\ task_archive[n] # 0)

NonDecreasing(trace) ==
  \A i \in 1..(Len(trace) - 1) :
    Ge(trace[i + 1].status, trace[i].status) \/ trace[i + 1].recycled

\* C2: for every task of a Launcher, each value assigned to its status is at
\* least the previous one in the TaskStatus order (but for the recycled-PID
\* promotion to Done), and so is each status report/report_all returns for it.
C2_StatusNeverDecreases ==
  /\ \A id \in 1..Len(statusTrace) : NonDecreasing(statusTrace[id])
  /\ \A n \in Names : \A i \in 1..(Len(reportTrace[n]) - 1) :
       Ge(reportTrace[n][i + 1], reportTrace[n][i])

C10_RecycledPidNotKilled ==
  (lastCancel.id # 0 /\ lastCancel.started /\ lastCancel.pre = "recycled") =>
     /\ lastCancel.status = "Done"
     /\ ~lastCancel.signalled
     /\ lastCancel.kidsSignalled = 0

\* C11: a Task built from a ProcessHandle whose pid is held by a live process
\* with another creation time has status Done and no return code, and a
\* cancel() of it sends no signal and leaves the status Done.
C11_RecycledHandleIsDone ==
  \A id \in 1..Len(heap) :
    (IsHandleTask(heap[id]) /\ procs[id].state = "recycled"
       /\ Recycled(heap[id], procs[id])) =>
      /\ heap[id].status = "Done"
      /\ rc(heap[id]) = None
      /\ ~procs[id].signalled
      /\ procs[id].kidsSignalled = 0

\* C12: Task.query() on a started task leaves the status as it was while the
\* process runs; called after the process exited with code r (and nothing
\* waited for it or cancelled it), it records rc = r and ends with status Done
\* when r = 0 and Failed otherwise.
C12_QueryRecordsExit ==
  /\ (lastQuery.id # 0 /\ lastQuery.started /\ lastQuery.pre = "running") =>
        lastQuery.status = lastQuery.before
  /\ (lastQuery.id # 0 /\ lastQuery.started /\ lastQuery.pre = "exited") =>
        /\ lastQuery.rc = lastQuery.exit
        /\ lastQuery.status = IF Val(lastQuery.exit) = 0 THEN "Done" ELSE "Failed"

\* C13: a Task.start() whose process does not spawn (application not in the
\* enum, executable missing, another spawn error) raises nothing and leaves the
\* task Failed.
C13_FailedSpawnIsFailed ==
  (lastStart.id # 0
     /\ lastStart.outcome \in {"SubprocessError", "ValueError", "OSError"}) =>
     /\ ~lastStart.raised
     /\ lastStart.status = "Failed"

LoopLeft == svc.pc \in {"exit_loop", "join", "on_shutdown"}
                \/ (svc.pc = "returned" /\ "_on_start" \notin svc.raised)

C15_StartFailureSkipsLoop ==
  "_on_start" \in svc.raised =>
     /\ svc.pc = "returned"
     /\ svc.iterations = 0
     /\ svc.completions = 0
     /\ svc.can_shutdown_calls = 0

C15_Witness ==
  /\ "_on_start" \in svc.raised
  /\ svc.pc = "returned"
  /\ svc.hc \in {"top", "get"}

\* C16: with as_service true, no _on_iteration starts after _can_shutdown has
\* returned true; the iteration before that call ran to completion; and the
\* loop is left only after _can_shutdown returned true or _on_iteration raised.
C16_CanShutdownEndsLoop ==
  svc._config.as_service =>
     /\ ~svc.iteration_after_stop
     /\ (svc.stop /\ svc.raised \subseteq {"_on_shutdown", "_on_health_check"}) =>
          /\ svc.completions = svc.iterations
          /\ svc.pc \notin {"iterate", "in_iteration", "on_complete"}
     /\ LoopLeft => (svc.stop \/ "_on_iteration" \in svc.raised)

C16_Witness ==
  /\ svc._config.as_service
  /\ svc.stop
  /\ svc.raised = {}
  /\ svc.iterations = 2
  /\ svc.pc = "returned"

\* C17: with as_service false, _on_iteration is called once (never twice) and
\* the loop is left without a call of _can_shutdown and without a delay.
C17_SinglePassWithoutService ==
  ~svc._config.as_service =>
     /\ svc.iterations <= 1
     /\ svc.can_shutdown_calls = 0
     /\ svc.delays = 0
     /\ LoopLeft => svc.iterations = 1

C17_Witness ==
  /\ svc.pc = "returned"
  /\ ~svc._config.as_service
  /\ svc._config.loop_delay # 0
  /\ svc.iterations = 1
  /\ svc.shutdowns = 1

\* C18: at most one token is ever put on the health-check queue, and one has
\* been put once execute() is past the loop; _on_shutdown is called only when
\* the health-check thread has ended, and no _on_health_check starts after it.
C18_QuitJoinShutdown ==
  /\ svc.tokens <= 1
  /\ (svc._hc_queue # None /\ svc.pc \in {"join", "on_shutdown"}) => svc.tokens = 1
  /\ (svc._hc_queue # None /\ svc.shutdowns > 0) => svc.tokens = 1
  /\ ~svc.shutdown_before_join
  /\ ~svc.check_after_shutdown
  /\ svc.shutdown_begun => svc.hc \in {"none", "exited", "dead"}

C18_Witness ==
  /\ svc.pc = "returned"
  /\ svc.shutdowns = 1
  /\ svc.tokens = 1
  /\ svc.hc = "exited"
  /\ svc._config.as_service

\* C19: under fair scheduling of the health-check thread, if the main thread
\* stays inside _on_iteration for ever (and no health check raises), then
\* _on_health_check is called again and again.
C19_HealthChecksWhileBlocked ==
  (<>[](svc.pc = "in_iteration" /\ svc.hc \in {"top", "get"}))
    => []<><<HealthCheck /\ svc.due>>_vars

C19_Witness ==
  /\ svc.pc = "in_iteration"
  /\ svc.checked
  /\ svc.hc = "get"
  /\ svc._config.health_check_frequency > 0

NonTerminal == {"Unknown", "Waiting", "Ready", "Active"}

C22_BackendErrorRetried ==
  /\ ~(chk.pc = "raised" /\ chk.error = BackendError)
  /\ (chk.task_name # "" /\ chk.attempts > 0 /\ chk.attempts <= retries
        /\ chk.seen \subseteq NonTerminal) => chk.pc = "probing"

\* C23: for a step whose Task.start() ended in Failed, the task Launcher.launch
\* returns has status Failed, and so has the task recorded in the launcher's
\* table under the step's name.
C23_FailedStartStaysFailed ==
  lastOp.op = "launch" =>
    \A n \in lastOp.names :
      lastOp.started[n] = "Failed" =>
        /\ lastOp.returned[n] = "Failed"
        /\ Recorded(n) = "Failed"

Launched == {heap[i].name : i \in 1..Len(heap)}

\* C24: after Launcher.launch returns for steps with pairwise distinct names
\* whose processes spawn, the returned map has one task per step, each under
\* its step's name, the names in the launcher's table are the names of the
\* steps launched so far, and every returned task has a status above Ready.
C24_LaunchTracksEveryStep ==
  (/\ lastOp.op = "launch"
   /\ Cardinality(lastOp.names) = Len(lastOp.steps)
   /\ \A n \in lastOp.names : heap[lastOp.ids[n]].process) =>
     /\ {n \in Names : lastOp.ids[n] # 0} = lastOp.names
     /\ \A n, m \in lastOp.names : lastOp.ids[n] = lastOp.ids[m] => n = m
     /\ \A n \in lastOp.names : heap[lastOp.ids[n]].name = n
     /\ \A n \in lastOp.names : tasks[n] = lastOp.ids[n]
     /\ {n \in Names : tasks[n] # 0} = Launched
     /\ \A n \in lastOp.names :
          /\ Gt(lastOp.returned[n], "Ready")
          /\ heap[lastOp.ids[n]].status = lastOp.returned[n]

C24_Witness ==
  /\ lastOp.op = "launch"
  /\ lastOp.names = {"A", "B"}
  /\ Len(lastOp.steps) = 2
  /\ \A n \in lastOp.names : heap[lastOp.ids[n]].process

\* C25: Launcher.report_all(items), after any number of earlier calls, returns
\* one entry per item name and no other: Unknown for a name that is not in the
\* launcher's table, and for a name in the table the status recorded for its
\* task at the time of the call.
C25_ReportAllReturnsRecorded ==
  lastOp.op = "report_all" =>
    \A n \in Names :
      lastOp.returned[n] =
        IF n \notin lastOp.names THEN "none"
        ELSE IF lastOp.before[n] = "none" THEN "Unknown"
        ELSE lastOp.before[n]

\* C26: after Launcher.update() every task that was below Done before the call
\* has the status _query_status answered for its name, report returns that
\* status, and every task that was Done, Aborted or Failed was not queried and
\* has the status it had.
C26_UpdateRefreshesActive ==
  lastOp.op = "update" =>
    \A n \in Names :
      lastOp.before[n] # "none" =>
        IF Lt(lastOp.before[n], "Done")
        THEN /\ lastOp.answer[n] # "none"
             /\ lastOp.after[n] = lastOp.answer[n]
             /\ lastOp.reported[n] = lastOp.answer[n]
        ELSE /\ lastOp.answer[n] = "none"
             /\ lastOp.after[n] = lastOp.before[n]

\* C27: a FailTask, whatever source and error message (or none) it is
\* constructed with, has status Failed once constructed and holds the message.
C27_FailTaskIsFailed ==
  lastStart.outcome = "FailTask" =>
    /\ lastStart.status = "Failed"
    /\ heap[lastStart.id].status = "Failed"
    /\ heap[lastStart.id].exception = lastStart.exception

\* depends_on of a step, and the steps a step depends on through one or more
\* depends_on links.
DependsOn(wp, n) == IF n \in StepNames(wp) THEN StepOf(wp, n).depends_on ELSE {}
RECURSIVE DependsOnWithin(_, _, _)
DependsOnWithin(wp, n, k) ==
  IF k = 0 THEN {}
  ELSE DependsOn(wp, n) \cup
       UNION {DependsOnWithin(wp, m, k - 1) : m \in DependsOn(wp, n)}
HasCycle(wp) == \E n \in StepNames(wp) : n \in DependsOnWithin(wp, n, Len(wp))

\* C28: no GraphPlanner or SerialPlanner object is produced from a workplan
\* whose depends_on relation has a cycle: the construction fails.
C28_CycleRejected ==
  Constructed => ~HasCycle(workplan)

\* C29: in the graph a GraphPlanner builds from a workplan there is an edge
\* m -> n exactly when m is in n.depends_on, an edge START -> n exactly when
\* n.depends_on is empty, and an edge n -> TERM exactly when no step depends
\* on n.
C29_GraphEdges ==
  (Constructed /\ plannerKind = "graph") =>
    LET E == _workplan_to_graph(workplan).edges
        S == StepNames(workplan)
    IN /\ \A m, n \in DiGraphNodes(dep_map(workplan)) :
            << m, n >> \in E <=> m \in DependsOn(workplan, n)
       /\ \A n \in S : << START_NODE, n >> \in E <=> DependsOn(workplan, n) = {}
       /\ \A n \in S : << n, TERMINAL_NODE >> \in E <=>
                          ~\E m \in S : n \in DependsOn(workplan, m)

\* The node that discovers n in a breadth-first traversal that visits the
\* nodes in the order p: the first node of p with an edge to n.
DiscoveredBy(E, p, n) ==
  LET from == {i \in 1..Len(p) : << p[i], n >> \in E}
  IN CHOOSE i \in from : \A j \in from : i <= j

\* C30: the plan of a SerialPlanner lists every non-control node of the graph
\* once and no control node, in the order a breadth-first traversal from START
\* discovers them when the successors of a node are visited in ascending name
\* order; next() returns the first step of this list that was not removed.
C30_SerialPlanIsBfsOrder ==
  (Constructed /\ plannerKind = "serial") =>
    LET g == _workplan_to_graph(workplan)
        full == plan(workplan)
        p == << START_NODE >> \o full
        removed == {events[i].name : i \in {j \in 2..Len(events) : events[j].ok}}
        Kept(n) == n \notin removed
    IN /\ {full[i] : i \in 1..Len(full)} = g.nodes \ control_nodes
       /\ \A i, j \in 1..Len(full) : full[i] = full[j] => i = j
       /\ \A i \in 2..Len(p) :
            /\ \E j \in 1..(i - 1) : << p[j], p[i] >> \in g.edges
            /\ i < Len(p) =>
                 LET a == DiscoveredBy(g.edges, p, p[i])
                     b == DiscoveredBy(g.edges, p, p[i + 1])
                 IN a < b \/ (a = b /\ NodeOrd(p[i]) < NodeOrd(p[i + 1]))
       /\ plan_ = SelectSeq(full, Kept)
       /\ SerialNext(plan_) = IF SelectSeq(full, Kept) = <<>> THEN None
                               ELSE Some(Head(SelectSeq(full, Kept)))

\* The steps Planner.remove was called for and did not raise.
Removed == {events[i].name : i \in {j \in 1..Len(events) :
                                     events[j].op = "remove" /\ events[j].ok}}

\* C31: for every planner variant, after Planner.remove(s) neither next() nor
\* an iteration over the planner yields s again; a second remove(s), like a
\* remove of a step that was never in the plan, raises and leaves the planner
\* as it was (so the planner holds what it was built with less the removed
\* steps).
C31_RemovedNeverYielded ==
  Constructed =>
    /\ \A s \in Removed :
         /\ next(plannerKind, workplan, plan_) # Some(s)
         /\ ~InSeq(PlannerIter(plannerKind, workplan, plan_), s)
    /\ \A i, j \in 1..Len(events) :
         (i < j /\ events[i].op = "remove" /\ events[j].op = "remove"
                /\ events[i].ok /\ events[i].name = events[j].name) => ~events[j].ok
    /\ \A j \in 1..Len(events) :
         (events[j].op = "remove"
            /\ ~InSeq(IF plannerKind = "graph"
                      THEN sorted(_workplan_to_graph(workplan).nodes)
                      ELSE plan(workplan), events[j].name)) => ~events[j].ok
    /\ plannerKind = "graph" => graph = _workplan_to_graph(workplan).nodes \ Removed
    /\ plannerKind = "serial" =>
         plan_ = SelectSeq(plan(workplan), LAMBDA n : n \notin Removed)

\* The task object was started by Task.start and its process spawned.
Spawned(id) == id \in 1..Len(heap) /\ heap[id].process

\* C32: after Task.start() has spawned a process that exits with code r,
\* reading task.rc repeatedly (with no query() or cancel() call) eventually
\* returns r, and once it has returned r every later read returns the same r.
C32_RcReadsReachExitCode ==
  /\ \A id \in 1..MaxLaunches, r \in ExitCodes :
       (Spawned(id) /\ procs[id].exit = Some(r))
          ~> (LastRead(id) = Some(r) \/ lastQuery.id = id)
  /\ [](\A id \in DOMAIN rcReads : \A i \in 1..Len(rcReads[id]) :
          rcReads[id][i] # None => i = Len(rcReads[id]))

\* C33: a new Task built from a Step has status Waiting and no pid,
\* create_time or rc; after a successful start() its status is Active and its
\* pid, create_time and cmd are recorded; and pid and task_id never change
\* afterwards under query() or reads of rc.
C33_StartRecordsProcess ==
  /\ []((lastStart.id # 0 /\ lastStart.outcome # "FailTask") =>
          LET made == Val(lastStart.made)
          IN /\ made.status = "Waiting"
             /\ made.pid = None
             /\ made.create_time = None
             /\ rc(made) = None
             /\ made.task_id # None)
  /\ []((lastStart.id # 0 /\ lastStart.outcome = "spawned") =>
          LET t == heap[lastStart.id]
          IN /\ t.status = "Active"
             /\ t.pid # None
             /\ t.create_time # None
             /\ t.cmd # None /\ Len(Val(t.cmd)) > 0
             /\ t.task_id = Val(lastStart.made).task_id)
  /\ [][\A id \in 1..Len(heap) :
          Spawned(id) => /\ heap'[id].pid = heap[id].pid
                         /\ heap[id].pid # None
                         /\ heap'[id].task_id = heap[id].task_id]_vars

\* A started task whose process has ended, after query() and a read of rc.
C33_Witness ==
  /\ Spawned(1)
  /\ procs[1].state = "exited"
  /\ lastQuery.id = 1
  /\ 1 \in DOMAIN rcReads
  /\ heap[1].pid = Some(1)

\* C34: Task.cancel() called after the task's process has already exited with
\* return code 0 never sets Aborted: the task ends with status Done and rc 0;
\* and cancel() on a task whose status is already terminal changes neither
\* status nor rc.
C34_LateCancelIsDone ==
  /\ (lastCancel.id # 0 /\ lastCancel.started /\ lastCancel.pre # "running"
         /\ lastCancel.exit = Some(0)) =>
       (lastCancel.status = "Done" /\ lastCancel.rc = Some(0))
  /\ (lastCancel.id # 0 /\ Gt(lastCancel.before, "Active")) =>
       (lastCancel.status = lastCancel.before /\ lastCancel.rc = lastCancel.rcBefore)

MappedRaw ==
  [w \in {"PENDING", "RUNNING", "COMPLETED", "CANCELLED", "FAILED"} |->
     CASE w = "PENDING" -> "Waiting" [] w = "RUNNING" -> "Active"
       [] w = "COMPLETED" -> "Done" [] w = "CANCELLED" -> "Aborted"
       [] w = "FAILED" -> "Failed"]

\* The raw string is one of the five states in some casing.
Spells(raw, w) == Len(raw) = 1 /\ UpperPiece(raw[1]) = w

\* C36: SlurmJobStatus.map_status is total on non-empty input and rejects
\* empty input: whatever the casing, PENDING maps to Waiting, RUNNING to
\* Active, COMPLETED to Done, CANCELLED to Aborted and FAILED to Failed; every
\* other string that is not empty or whitespace-only maps to Unknown; an empty
\* or whitespace-only string raises; and for the resulting status S,
\* is_terminated holds exactly when S is Done, Aborted or Failed.
C36_MapStatusTotal ==
  (fn.op = "map_status" /\ fn.done) =>
    LET raw == Val(fn.args)
        S == Val(fn.result).status
        job == Val(fn.result).job
        blank == \A i \in 1..Len(raw) : raw[i] \in Blanks
    IN /\ blank <=> S = "ValueError"
       /\ blank <=> job.raised
       /\ ~blank =>
            /\ \A w \in DOMAIN MappedRaw : Spells(raw, w) => S = MappedRaw[w]
            /\ (\A w \in DOMAIN MappedRaw : ~Spells(raw, w)) => S = "Unknown"
            /\ S \in {TaskStatus[i] : i \in 1..Len(TaskStatus)}
            /\ job.state = S
            /\ job.is_terminated <=> S \in {"Done", "Aborted", "Failed"}

\* A lower-case raw state has been mapped to a terminal status.
C36_Witness ==
  /\ fn.op = "map_status" /\ fn.done
  /\ Val(fn.args) = << "completed" >>
  /\ Val(fn.result).status = "Done"
  /\ Val(fn.result).job.is_terminated

\* C37: SlurmLauncher._query_status(names) with a non-empty names returns a
\* map containing only requested names that appear in the backend output; a
\* requested name that the output does not mention is absent from the result,
\* and the call does not fail because of it (it may fail for another reason:
\* no job id, or a line with an empty state).
C37_UnknownNamesAbsent ==
  (fn.op = "_query_status" /\ fn.done /\ Val(fn.args).task_ids # <<>>) =>
    LET a == Val(fn.args)
        r == Val(fn.result)
        asked == {a.task_ids[i] : i \in 1..Len(a.task_ids)}
        otherFailure ==
          \/ a.job_id = None
          \/ \E i \in 1..Len(a.status_lines) :
                strip(a.status_lines[i].raw_status) = <<>>
    IN IF otherFailure THEN r.raised \in {"AttributeError", "ValueError"}
       ELSE /\ r.raised = "none"
            /\ DOMAIN r.results = asked \cap Mentioned(a.status_lines)
            /\ \A n \in DOMAIN r.results :
                 r.results[n] = map_status(LastLine(a.status_lines, n).raw_status)

\* The calendar month of a datetime, counted from year 0.
MonthNo(d) == d.year * 12 + d.month
FirstInstantOfMonth(d) == d.day = 1 /\ d.hour = 0

C40_NoHealthCheckLeftRunning ==
  (svc.pc \in {"returned", "propagated"} /\ svc._hc_queue # None) =>
     /\ svc.tokens >= 1
     /\ svc.hc \in {"exited", "dead"}

\* C39: split(step), for a span with start_date < end_date, yields one
\* sub-step per time slice, in the order of the slices and under pairwise
\* distinct names; the first sub-step depends on what the step depended on,
\* and every later one on exactly the sub-step yielded before it.
C39_SplitChainsSubSteps ==
  (fn.op = "split" /\ fn.done
     /\ Before(Val(fn.args).blueprint.runtime_params.start_date,
               Val(fn.args).blueprint.runtime_params.end_date)) =>
     LET a == Val(fn.args)
         g == Val(fn.result)
         time_slices == get_time_slices(a.blueprint.runtime_params.start_date,
                                        a.blueprint.runtime_params.end_date).slices
     IN /\ g.raised = "none"
        /\ Len(g.steps) = Len(time_slices)
        /\ \A i \in 1..Len(g.steps) :
             /\ g.steps[i].name = SubStepName(a.step, time_slices[i])
             /\ g.steps[i].blueprint_overrides.start_date
                  = strftime_full(time_slices[i][1])
             /\ g.steps[i].blueprint_overrides.end_date
                  = strftime_full(time_slices[i][2])
        /\ \A i, j \in 1..Len(g.steps) :
             i # j => g.steps[i].name # g.steps[j].name
        /\ Len(g.steps) >= 1 => g.steps[1].depends_on = a.step.depends_on
        /\ \A i \in 2..Len(g.steps) :
             g.steps[i].depends_on = {g.steps[i - 1].name}

====
